---------------------------- MODULE Spec2Model ----------------------------
(***************************************************************************)
(* Verification model of the data-source gateway of the backend:           *)
(*   - app/utils/database_connector.py  DatabaseConnector                  *)
(*   - app/routes/queries.py            POST /queries/execute + helpers    *)
(*   - app/routes/insights.py           POST /generate                     *)
(*   - app/routes/databases.py          create, list, schema, delete       *)
(*   - app/utils/sql_safety.py          enforce_limit                      *)
(*   - app/routes/auth.py               forgot-password, reset-password    *)
(*                                                                         *)
(* The specifications share the variables:                                 *)
(*   Spec       the gateway: one request at a time, one step per I/O call  *)
(*   SpecConn   one DatabaseConnector instance under arbitrary call        *)
(*              sequences                                                  *)
(*   SpecAuth   the password-reset routes on a users table                 *)
(*   SpecLoop   the async handlers as coroutines of one event loop         *)
(*   SpecRace   create requests handled on several threads                 *)
(*   SpecTemp   test-excel uploads handled as coroutines                   *)
(*   SpecLimit  the pure helper enforce_limit on bounded query texts       *)
(*   SpecName, SpecType, SpecJson                                          *)
(*              the pure helpers normalize_column_name, normalize_type and *)
(*              clean_json on bounded inputs; they keep their input in lq, *)
(*              their results in lout and their position in lpc            *)
(*                                                                         *)
(* A query text is a sequence of atoms.  An atom is either one character   *)
(* (" ", ";", "*", a digit, ...) or a run of word characters ("select",    *)
(* "users").  Regular-expression word boundaries are evaluated between     *)
(* neighbouring atoms.                                                     *)
(***************************************************************************)
EXTENDS Integers, Sequences, FiniteSets, TLC

VARIABLES
    lq,         \* SpecLimit: the query text given to enforce_limit
    ln,         \* SpecLimit: the limit given to enforce_limit
    lout,       \* SpecLimit: results of the two enforce_limit functions
    lpc,        \* SpecLimit: "input" | "once" | "twice"
    connector,  \* the DatabaseConnector instance (its fields)
    backend,    \* handles opened on the backends and spreadsheet reads so far
    files,      \* file storage: path -> stored spreadsheet, or "missing"
    calls,      \* SpecConn: number of method calls made on the instance
    sess,       \* SpecConn: connect() calls since construction or the last close()
    profiles,   \* Spec: the database_connections table, id -> record
    history,    \* Spec: the query_history table, oldest first
    rq,         \* Spec: the handler's frame: request, position and locals
    trace,      \* Spec: connector and model events of the current request
    response,   \* Spec, SpecAuth: what the last finished request returned
    users,      \* SpecAuth: the users table, email -> record
    outbox,     \* SpecAuth: background tasks added and not yet run
    issued,     \* SpecAuth: number of reset tokens generated so far
    areq,       \* SpecAuth: the last request made to the /auth routes
    task,       \* SpecLoop, SpecRace, SpecTemp: the requests in flight, id -> frame
    loop        \* SpecLoop, SpecTemp: the request running on the event loop, or 0

lvars == <<lq, ln, lout, lpc>>
cvars == <<connector, backend, files, calls, sess>>
gvars == <<profiles, history, rq, trace, response>>
avars == <<users, outbox, issued, areq>>
kvars == <<task, loop>>
vars == <<lvars, cvars, gvars, avars, kvars>>

(***************************************************************************)
(* Bounds of the model                                                     *)
(***************************************************************************)
MaxLen == 4
MaxCalls == 4
MaxHistory == 1

(***************************************************************************)
(* Text primitives                                                         *)
(***************************************************************************)
WhitespaceAtoms == {" ", "\n"}

DigitAtoms == <<"0", "1", "2", "3", "4", "5", "6", "7", "8", "9">>

\* Atoms that are runs of upper- or mixed-case letters, with their lower case.
UpperAtoms ==
    {"LIMIT", "Limit", "SELECT", "FROM", "DROP", "TABLE", "JOIN", "DELETE"}

\* str.lower() on one atom
Lower(a) ==
    CASE a = "LIMIT"  -> "limit"
      [] a = "Limit"  -> "limit"
      [] a = "SELECT" -> "select"
      [] a = "FROM"   -> "from"
      [] a = "DROP"   -> "drop"
      [] a = "TABLE"  -> "table"
      [] a = "JOIN"   -> "join"
      [] a = "DELETE" -> "delete"
      [] OTHER        -> a

\* Atoms made only of non-word characters (everything else is [A-Za-z0-9_]+)
NonWordAtoms ==
    WhitespaceAtoms \cup {";", "--", "/*", "*", ",", "-", "\"", "[fence]", "{", "}", ":", "="}

IsWord(a) == a \notin NonWordAtoms

\* re.search(r"\bkw\b", text, flags=re.IGNORECASE)
WordSearch(text, kw) ==
    \E i \in 1..Len(text) :
        /\ Lower(text[i]) = kw
        /\ (i = 1 \/ ~IsWord(text[i - 1]))
        /\ (i = Len(text) \/ ~IsWord(text[i + 1]))

\* re.search of a pattern that is one non-word atom (";", "--", "/*")
AtomSearch(text, a) == \E i \in 1..Len(text) : text[i] = a

RECURSIVE rstrip(_)
\* str.rstrip()
rstrip(text) ==
    IF Len(text) > 0 /\ text[Len(text)] \in WhitespaceAtoms
    THEN rstrip(SubSeq(text, 1, Len(text) - 1))
    ELSE text

RECURSIVE lstrip(_)
\* the left half of str.strip()
lstrip(text) ==
    IF Len(text) > 0 /\ text[1] \in WhitespaceAtoms
    THEN lstrip(Tail(text))
    ELSE text

\* str.strip()
strip(text) == lstrip(rstrip(text))

RECURSIVE NatStr(_)
\* decimal digits of a natural number
NatStr(n) ==
    IF n < 10 THEN <<DigitAtoms[n + 1]>>
    ELSE NatStr(n \div 10) \o <<DigitAtoms[(n % 10) + 1]>>

\* f"{limit}" for an int
IntStr(n) == IF n < 0 THEN <<"-">> \o NatStr(0 - n) ELSE NatStr(n)

(***************************************************************************)
(* enforce_limit (routes/queries.py and utils/sql_safety.py)               *)
(***************************************************************************)
\* Faulty variant: the suffix is glued to the text without the separating space.
enforce_limit_glued(sql, limit) ==
    IF WordSearch(sql, "limit") THEN sql
    ELSE rstrip(sql) \o <<"LIMIT">> \o IntStr(limit)

enforce_limit(sql, limit) ==
    IF WordSearch(sql, "limit") THEN sql
    ELSE rstrip(sql) \o <<" ", "LIMIT", " ">> \o IntStr(limit)

sql_safety_enforce_limit(sql, row_limit) ==
    IF WordSearch(sql, "limit") THEN sql
    ELSE rstrip(sql) \o <<" ", "LIMIT", " ">> \o IntStr(row_limit)

\* lout before enforce_limit ran: q1, s1 hold the results of one application
\* (queries.py, sql_safety.py), q2, s2 those of a second one
NoLimitOut == [q1 |-> <<>>, s1 |-> <<>>, q2 |-> <<>>, s2 |-> <<>>]

(***************************************************************************)
(* Python values as the drivers return them and as clean_json walks them:  *)
(* a node has the key k it sits under in its parent dict ("" elsewhere),   *)
(* its type t, its text v for a scalar and its children for a dict or list *)
(***************************************************************************)
None == "None"

Node(k, t, v, items) == [k |-> k, t |-> t, v |-> v, items |-> items]

Leaf(k, t, v) == Node(k, t, v, <<>>)

\* float("nan"), float("inf"), float("-inf")
NonFinite == {"NaN", "Infinity", "-Infinity"}

RECURSIVE clean_json_dicts_only(_)
RECURSIVE clean_json(_)
\* Faulty variant: lists are returned as they are, only dicts are walked.
clean_json_dicts_only(obj) ==
    IF obj.t = "dict"
    THEN [obj EXCEPT !.items = [i \in 1..Len(obj.items) |-> clean_json_dicts_only(obj.items[i])]]
    ELSE IF obj.t = "float" /\ obj.v \in NonFinite
    THEN Leaf(obj.k, "None", None)
    ELSE obj

\* clean_json
clean_json(obj) ==
    IF obj.t \in {"dict", "list"}
    THEN [obj EXCEPT !.items = [i \in 1..Len(obj.items) |-> clean_json(obj.items[i])]]
    ELSE IF obj.t = "float" /\ obj.v \in NonFinite
    THEN Leaf(obj.k, "None", None)
    ELSE obj

\* rows as cursor.fetchall() / find() give them: ints, fixed-point decimals,
\* date-times
DriverRow1 ==
    Node("", "dict", None, <<Leaf("id", "int", "1"), Leaf("price", "Decimal", "9.99")>>)
DriverRow2 ==
    Node("", "dict", None, <<Leaf("id", "int", "2"), Leaf("created", "datetime", "2024-01-01")>>)

\* rows as DataFrame.to_dict('records') gives them: an empty cell is a NaN
SheetRow1 ==
    Node("", "dict", None,
         <<Leaf("id", "int", "1"), Leaf("region", "str", "north"), Leaf("amount", "float", "NaN")>>)
SheetRow2 ==
    Node("", "dict", None,
         <<Leaf("id", "int", "2"), Leaf("region", "str", "north"), Leaf("amount", "float", "1.5")>>)

(***************************************************************************)
(* DatabaseConnector (utils/database_connector.py)                         *)
(***************************************************************************)

\* Python truthiness of an optional field; str and int values are both written
\* as atoms ("3306"), so "" and "0" are the falsy values besides None
Truthy(v) == v \notin {None, "", "0"}

\* self.connection holds None or a handle; handles are numbered from 1
NoHandle == 0

Paths == {"uploads/a.xlsx"}

\* What pd.read_excel finds at a path: a table, or bytes it cannot parse
GoodTable == [kind |-> "table", cols |-> 3, rows |-> 2]
EmptyTable == [kind |-> "table", cols |-> 3, rows |-> 0]
CorruptFile == [kind |-> "corrupt", cols |-> 0, rows |-> 0]
MissingFile == [kind |-> "missing", cols |-> 0, rows |-> 0]
FileStates == {MissingFile, CorruptFile, GoodTable, EmptyTable}

\* self.dataframe before any load
NoDataFrame == [kind |-> "None", cols |-> 0, rows |-> 0]

\* DataFrame.empty
DataFrameEmpty(df) == df.cols = 0 \/ df.rows = 0

\* os.path.exists
PathExists(fs, path) == path \in DOMAIN fs /\ fs[path].kind # "missing"

\* DatabaseConnector.__init__
NewConnector(db_connection) ==
    [db_connection |-> db_connection, connection |-> NoHandle, engine |-> None,
     dataframe |-> NoDataFrame, db |-> None, current_file_path |-> None]

\* open: handles not released; opened: handles created so far; reads:
\* spreadsheet reads so far; failed: handles whose driver close() raised
\* no find has been run
NoFind == [collection |-> None, filter |-> None, limit |-> 0]

\* finds, last_find: the find calls execute_query made on a collection
NewBackend ==
    [open |-> {}, opened |-> 0, reads |-> 0, failed |-> {}, finds |-> 0, last_find |-> NoFind]

\* What the network driver does on one connection attempt:
\*   "refused"      the driver's connect / client constructor raises
\*   "probe_error"  the handle is created and the liveness probe raises
\*   "ok"           the handle is created and the probe succeeds
ConnectOutcomes == {"refused", "probe_error", "ok"}

\* What the driver does on one statement / find / metadata read
ExecOutcomes == {"error", "empty", "rows"}

RowsOf(x) == IF x = "rows" THEN <<DriverRow1, DriverRow2>> ELSE <<>>

Outcome(c, b, ok, msg) == [c |-> c, b |-> b, ok |-> ok, msg |-> msg]

\* Faulty variant: the spreadsheet is read on every connect, the cached path is ignored.
connect_excel_reread(c, b, fs) ==
    LET p == c.db_connection IN
    IF ~Truthy(p.file_path) THEN Outcome(c, b, FALSE, "Excel file path is required")
    ELSE IF ~PathExists(fs, p.file_path) THEN Outcome(c, b, FALSE, "Excel file not found")
    ELSE LET b1 == [b EXCEPT !.reads = @ + 1] IN
         IF fs[p.file_path].kind = "corrupt"
         THEN Outcome(c, b1, FALSE, "Unexpected error during connection")
         ELSE LET c1 == [c EXCEPT !.dataframe = fs[p.file_path],
                                  !.current_file_path = p.file_path] IN
              IF DataFrameEmpty(c1.dataframe)
              THEN Outcome(c1, b1, FALSE, "Excel file is empty or contains no data")
              ELSE Outcome(c1, b1, TRUE, "Excel file loaded successfully")

\* connect(), db_type == "excel"
connect_excel(c, b, fs) ==
    LET p == c.db_connection IN
    IF ~Truthy(p.file_path) THEN Outcome(c, b, FALSE, "Excel file path is required")
    ELSE IF ~PathExists(fs, p.file_path) THEN Outcome(c, b, FALSE, "Excel file not found")
    ELSE IF c.current_file_path # p.file_path
    THEN \* pd.read_excel: one read of the file; a fault goes to the outer except
         LET b1 == [b EXCEPT !.reads = @ + 1] IN
         IF fs[p.file_path].kind = "corrupt"
         THEN Outcome(c, b1, FALSE, "Unexpected error during connection")
         ELSE LET c1 == [c EXCEPT !.dataframe = fs[p.file_path],
                                  !.current_file_path = p.file_path] IN
              IF DataFrameEmpty(c1.dataframe)
              THEN Outcome(c1, b1, FALSE, "Excel file is empty or contains no data")
              ELSE Outcome(c1, b1, TRUE, "Excel file loaded successfully")
    ELSE IF DataFrameEmpty(c.dataframe)
    THEN Outcome(c, b, FALSE, "Excel file is empty or contains no data")
    ELSE Outcome(c, b, TRUE, "Excel file loaded successfully")

\* self.connection = <driver>(...): a new handle; the field is overwritten
OpenHandle(c, b) ==
    LET h == b.opened + 1 IN
    [c |-> [c EXCEPT !.connection = h],
     b |-> [b EXCEPT !.opened = h, !.open = @ \cup {h}]]

\* the message slot of a call that an exception left instead of a return
Uncaught == "uncaught exception"

\* Faulty variant: the driver's errors are not caught and leave connect().
connect_mysql_unguarded(c, b, o) ==
    LET p == c.db_connection IN
    IF ~(Truthy(p.host) /\ Truthy(p.port) /\ Truthy(p.database_name) /\ Truthy(p.username))
    THEN Outcome(c, b, FALSE, "Missing required connection parameters for MySQL")
    ELSE IF o = "refused" THEN Outcome(c, b, FALSE, Uncaught)
    ELSE LET w == OpenHandle(c, b) IN
         IF o = "probe_error" THEN Outcome(w.c, w.b, FALSE, Uncaught)
         ELSE Outcome(w.c, w.b, TRUE, "Connected to MySQL successfully")

\* connect(), db_type == "mysql"
connect_mysql(c, b, o) ==
    LET p == c.db_connection IN
    IF ~(Truthy(p.host) /\ Truthy(p.port) /\ Truthy(p.database_name) /\ Truthy(p.username))
    THEN Outcome(c, b, FALSE, "Missing required connection parameters for MySQL")
    ELSE IF o = "refused" THEN Outcome(c, b, FALSE, "MySQL connection error")
    ELSE LET w == OpenHandle(c, b) IN
         IF o = "probe_error" THEN Outcome(w.c, w.b, FALSE, "MySQL connection error")
         ELSE Outcome(w.c, w.b, TRUE, "Connected to MySQL successfully")

\* Faulty variant: the client is built before the parameters are looked at.
connect_mongodb_unchecked(c, b, o) ==
    LET p == c.db_connection IN
    IF o = "refused" THEN Outcome(c, b, FALSE, "Unexpected MongoDB connection error")
    ELSE LET w == OpenHandle(c, b) IN
         IF o = "probe_error" \/ ~(Truthy(p.host) /\ Truthy(p.port) /\ Truthy(p.database_name))
         THEN Outcome(w.c, w.b, FALSE, "Cannot connect to MongoDB server")
         ELSE Outcome([w.c EXCEPT !.db = p.database_name], w.b, TRUE,
                      "Connected to MongoDB successfully")

\* connect(), db_type == "mongodb"
connect_mongodb(c, b, o) ==
    LET p == c.db_connection IN
    IF ~(Truthy(p.host) /\ Truthy(p.port) /\ Truthy(p.database_name))
    THEN Outcome(c, b, FALSE, "Missing required connection parameters for MongoDB")
    ELSE IF o = "refused" THEN Outcome(c, b, FALSE, "Unexpected MongoDB connection error")
    ELSE LET w == OpenHandle(c, b) IN
         IF o = "probe_error" THEN Outcome(w.c, w.b, FALSE, "Cannot connect to MongoDB server")
         ELSE Outcome([w.c EXCEPT !.db = p.database_name], w.b, TRUE,
                      "Connected to MongoDB successfully")

\* DatabaseConnector.connect
connect(c, b, fs, o) ==
    LET t == c.db_connection.db_type IN
    IF t = "excel" THEN connect_excel(c, b, fs)
    ELSE IF t = "mysql" THEN connect_mysql(c, b, o)
    ELSE IF t = "mongodb" THEN connect_mongodb(c, b, o)
    ELSE Outcome(c, b, FALSE, "Unsupported database type")

\* What the driver does on self.connection.close():
\*   "closed"  the handle is released
\*   "error"   the call raises and the handle is not released
CloseOutcomes == {"closed", "error"}

\* if self.connection: if db_type in ["mysql", "mongodb"]:
HoldsHandle(c) ==
    c.connection # NoHandle /\ c.db_connection.db_type \in {"mysql", "mongodb"}

\* Faulty variant: the driver's error is not caught and leaves close().
close_unguarded(c, b, k) ==
    IF HoldsHandle(c) /\ k = "error"
    THEN [c |-> c, b |-> b, raised |-> TRUE]
    ELSE [c |-> [c EXCEPT !.current_file_path = None],
          b |-> IF HoldsHandle(c) THEN [b EXCEPT !.open = @ \ {c.connection}] ELSE b,
          raised |-> FALSE]

\* DatabaseConnector.close; k: what the driver does on the handle's close();
\* raised: whether an exception leaves the method
close(c, b, k) ==
    [c |-> [c EXCEPT !.current_file_path = None],
     b |-> IF ~HoldsHandle(c) THEN b
           ELSE IF k = "closed" THEN [b EXCEPT !.open = @ \ {c.connection}]
           ELSE [b EXCEPT !.failed = @ \cup ({c.connection} \cap b.open)],
     raised |-> FALSE]

\* json.loads(query) succeeds with a dict: the text is "{" members "}" where a
\* member is the three atoms  key ":" value
IsJsonObject(text) ==
    /\ Len(text) >= 2
    /\ text[1] = "{"
    /\ text[Len(text)] = "}"
    /\ (Len(text) - 2) % 3 = 0
    /\ \A i \in 2..(Len(text) - 1) : ((i - 2) % 3 = 1) <=> (text[i] = ":")

\* query_obj.get(key, default)
JsonGet(text, key, default) ==
    IF \E i \in 2..(Len(text) - 1) : (i - 2) % 3 = 0 /\ text[i] = key
    THEN text[(CHOOSE i \in 2..(Len(text) - 1) : (i - 2) % 3 = 0 /\ text[i] = key) + 2]
    ELSE default

\* tables (collections) the backend holds, in the order the driver lists them
BackendTables == <<"users", "orders">>

\* self.dataframe.to_dict('records') / df.head(limit)
TableRows(df) == SubSeq(<<SheetRow1, SheetRow2>>, 1, df.rows)

Result(c, b, ok, msg, data, keys) ==
    [c |-> c, b |-> b, ok |-> ok, msg |-> msg, data |-> data, keys |-> keys]

\* df.head(limit) / LIMIT {limit}; limit = 0 stands for limit=None
HeadRows(rows, limit) ==
    IF limit # 0 /\ limit < Len(rows) THEN SubSeq(rows, 1, limit) ELSE rows

\* the filter {} of find: every document matches
MatchAll == "{}"

\* the limit of a query object as a number
LimitNumber(v) ==
    CASE v = "1" -> 1
      [] v = "100" -> 100
      [] OTHER -> 0

\* documents of a collection as the driver returns them
MongoDoc1 ==
    Node("", "dict", None, <<Leaf("_id", "ObjectId", "65a1"), Leaf("name", "str", "ann")>>)
MongoDoc2 ==
    Node("", "dict", None, <<Leaf("_id", "ObjectId", "65a2"), Leaf("name", "str", "bob")>>)

\* collection.find(filter_obj): every document under the match-all filter,
\* the documents that match under another one
Find(x, filter_obj) ==
    IF x # "rows" THEN <<>>
    ELSE IF filter_obj = MatchAll THEN <<MongoDoc1, MongoDoc2>>
    ELSE <<MongoDoc2>>

\* Faulty variant: the row identifier is returned as the driver gave it.
StrId_skipped(item) == item

\* if "_id" in item: item["_id"] = str(item["_id"])
StrId(item) ==
    [item EXCEPT !.items =
        [i \in 1..Len(item.items) |->
            IF item.items[i].k = "_id"
            THEN Leaf("_id", "str", item.items[i].v)
            ELSE item.items[i]]]

\* DatabaseConnector.execute_query; o, x: what the driver does on connect and
\* on the statement
execute_query(c, b, fs, query, o, x) ==
    LET r == connect(c, b, fs, o)
        t == c.db_connection.db_type IN
    IF ~r.ok THEN Result(r.c, r.b, FALSE, r.msg, <<>>, <<>>)
    ELSE IF t = "excel"
    THEN IF strip(query) = <<>>
         THEN Result(r.c, r.b, FALSE, "Query cannot be empty", <<>>, <<>>)
         ELSE IF r.c.dataframe.kind # "None"
         THEN Result(r.c, r.b, TRUE, "Query executed successfully", TableRows(r.c.dataframe), <<>>)
         ELSE Result(r.c, r.b, FALSE, "No data available from Excel file", <<>>, <<>>)
    ELSE IF t = "mysql"
    THEN IF x = "error"
         THEN Result(r.c, r.b, FALSE, "Error executing query", <<>>, <<>>)
         ELSE Result(r.c, r.b, TRUE, "Query executed successfully", RowsOf(x), <<>>)
    ELSE \* mongodb
         IF ~IsJsonObject(query)
         THEN Result(r.c, r.b, FALSE, "Error executing query", <<>>, <<>>)
         ELSE LET collection_name == JsonGet(query, "collection", None)
                  filter_obj == JsonGet(query, "filter", MatchAll)
                  limit == LimitNumber(JsonGet(query, "limit", "100"))
                  b1 == [r.b EXCEPT !.finds = @ + 1,
                                    !.last_find = [collection |-> collection_name,
                                                   filter |-> filter_obj,
                                                   limit |-> limit]] IN
              IF ~Truthy(collection_name)
              THEN Result(r.c, r.b, FALSE, "Collection name required", <<>>, <<>>)
              ELSE IF x = "error"
              THEN Result(r.c, b1, FALSE, "Error executing query", <<>>, <<>>)
              ELSE LET result == HeadRows(Find(x, filter_obj), limit) IN
                   Result(r.c, b1, TRUE, "Query executed successfully",
                          [i \in 1..Len(result) |-> StrId(result[i])], <<>>)

\* DatabaseConnector.get_resource_data; keys are the resource mapping's keys,
\* data the rows found under them
get_resource_data(c, b, fs, limit, o, x) ==
    LET r == connect(c, b, fs, o)
        t == c.db_connection.db_type IN
    IF ~r.ok THEN Result(r.c, r.b, FALSE, r.msg, <<>>, <<>>)
    ELSE IF t = "excel"
    THEN Result(r.c, r.b, TRUE, "Resource data retrieved successfully",
                HeadRows(TableRows(r.c.dataframe), limit), <<"data">>)
    ELSE IF x = "error"
    THEN Result(r.c, r.b, FALSE, "Error retrieving resource data", <<>>, <<>>)
    ELSE Result(r.c, r.b, TRUE, "Resource data retrieved successfully",
                HeadRows(RowsOf(x), limit), IF x = "rows" THEN BackendTables ELSE <<>>)

\* DatabaseConnector.get_schema; keys are the schema mapping's keys
get_schema(c, b, fs, o, x) ==
    LET r == connect(c, b, fs, o)
        t == c.db_connection.db_type IN
    IF ~r.ok THEN Result(r.c, r.b, FALSE, r.msg, <<>>, <<>>)
    ELSE IF t = "excel"
    THEN Result(r.c, r.b, TRUE, "Schema retrieved successfully", <<>>, <<"data">>)
    ELSE IF x = "error"
    THEN Result(r.c, r.b, FALSE, "Error retrieving schema", <<>>, <<>>)
    ELSE Result(r.c, r.b, TRUE, "Schema retrieved successfully",
                <<>>, IF x = "rows" THEN BackendTables ELSE <<>>)

\* DatabaseConnection(...): a row of database_connections
Profile(id, user, type, host, port, dbname, username, password, path) ==
    [id |-> id, user_id |-> user, db_type |-> type, host |-> host, port |-> port,
     database_name |-> dbname, username |-> username, password |-> password,
     file_path |-> path, is_active |-> TRUE, name |-> "main"]

(***************************************************************************)
(* Safety helpers of routes/queries.py                                     *)
(***************************************************************************)
\* FORBIDDEN_PATTERNS: the keyword patterns \bkw\b and the bare patterns
ForbiddenWords ==
    {"insert", "update", "delete", "drop", "alter", "truncate", "create", "grant", "revoke"}

ForbiddenMarks == {";", "--", "/*"}

is_select_only(sql) ==
    LET s == strip(sql) IN Len(s) > 0 /\ Lower(s[1]) = "select"

contains_forbidden(sql) ==
    \/ sql = <<>>
    \/ \E kw \in ForbiddenWords : WordSearch(sql, kw)
    \/ \E m \in ForbiddenMarks : AtomSearch(sql, m)

\* re.findall(r"\b(from|join)\s+[`\"]?([a-z0-9_]+)[`\"]?", sql.lower())
extract_tables(sql) ==
    { Lower(sql[j]) : j \in
        { j \in 1..Len(sql) :
            /\ IsWord(sql[j])
            /\ \E i \in 1..(j - 1) :
                /\ Lower(sql[i]) \in {"from", "join"}
                /\ (i = 1 \/ ~IsWord(sql[i - 1]))
                /\ \E k \in (i + 1)..(j - 1) :
                    /\ \A w \in (i + 1)..k : sql[w] \in WhitespaceAtoms
                    /\ (k = j - 1 \/ (k = j - 2 /\ sql[j - 1] = "\"")) } }

allowed_tables_check(sql, allowed_tables) ==
    \A f \in extract_tables(sql) :
        \E i \in 1..Len(allowed_tables) : Lower(allowed_tables[i]) = f

\* f"SELECT * FROM {tables[0]} LIMIT 100"
FallbackQuery(table) ==
    <<"SELECT", " ", "*", " ", "FROM", " ", table, " ", "LIMIT", " ">> \o IntStr(100)

\* clean_json(res_payload)["data"]: the walk reaches the rows under "data"
CleanData(rows) == clean_json(Node("data", "list", None, rows)).items

(***************************************************************************)
(* The gateway's stores, requests and the external model's answers         *)
(***************************************************************************)
Users == {1, 2}

\* ids a request may name; the last one is stored only once a create request
\* has added a record
DbIds == {1, 2, 3, 4}

InitProfiles ==
    [i \in {1, 2, 3} |->
        CASE i = 1 -> Profile(1, 1, "mysql", "db", "3306", "shop", "root", "pw", None)
          [] i = 2 -> [Profile(2, 1, "excel", None, None, None, None, None, "uploads/a.xlsx")
                         EXCEPT !.name = "sheet"]
          [] i = 3 -> Profile(3, 2, "mongodb", "db", "27017", "shop", None, None, None)]

NoProfile == Profile(0, 0, "None", None, None, None, None, None, None)

\* An optional text: Python None, or a str
NoText == [some |-> FALSE, text |-> <<>>]
Some(text) == [some |-> TRUE, text |-> text]

\* Texts the external model may answer with
ModelTexts ==
    { <<"SELECT", " ", "*", " ", "FROM", " ", "users">>,
      <<"DROP", " ", "TABLE", " ", "users">>,
      <<"select", " ", "*", " ", "from", " ", "secrets">>,
      <<"select", " ", "1", ";", "DELETE", " ", "FROM", " ", "users">>,
      <<"{", "collection", ":", "users", "}">>,
      <<>> }

FencedText ==
    <<"[fence]", "sql", "\n", "select", " ", "*", " ", "from", " ", "secrets", "\n", "[fence]">>

\* One answer of the external model:
\*   kind "raise"      the call raises (transport failure)
\*   kind "http_error" the call returns an error status (HuggingFace only)
\*   kind "malformed"  the body does not parse to the expected shape
\*   kind "json"       a JSON object; has_* say which keys it carries
\*   kind "text"       HuggingFace's [{"generated_text": sql}]
Answer(kind, sql, has_sql, has_answer, has_chart, chart) ==
    [kind |-> kind, sql |-> sql, has_sql |-> has_sql, has_answer |-> has_answer,
     has_chart |-> has_chart, chart |-> chart]

NoAnswer == Answer("None", <<>>, FALSE, FALSE, FALSE, None)

OkText == <<"SELECT", " ", "*", " ", "FROM", " ", "users">>

\* the query generated for "total amount by region"
GroupByText ==
    <<"select", " ", "region", ",", " ", "sum", "(", "amount", ")", " ", "from", " ", "sales",
      " ", "group", " ", "by", " ", "region">>

\* what client.chat.completions.create may do (query_data_with_ai)
GroqAnswers ==
    { Answer("raise", <<>>, FALSE, FALSE, FALSE, None),
      Answer("malformed", <<>>, FALSE, FALSE, FALSE, None) }
    \cup { Answer("json", t, TRUE, TRUE, TRUE, "bar") : t \in ModelTexts }
    \cup { Answer("json", GroupByText, TRUE, TRUE, TRUE, "bar"),
           Answer("json", OkText, TRUE, TRUE, TRUE, "heatmap"),
           Answer("json", OkText, TRUE, FALSE, TRUE, "bar"),
           Answer("json", OkText, TRUE, TRUE, FALSE, None),
           Answer("json", <<>>, FALSE, TRUE, TRUE, "bar") }

\* what the POST to HF_API_URL may do (generate_insight)
HfAnswers ==
    { Answer("raise", <<>>, FALSE, FALSE, FALSE, None),
      Answer("http_error", <<>>, FALSE, FALSE, FALSE, None),
      Answer("malformed", <<>>, FALSE, FALSE, FALSE, None) }
    \cup { Answer("text", t, TRUE, FALSE, FALSE, None) : t \in ModelTexts \cup {FencedText} }

RECURSIVE RemoveFences(_)
\* .replace("```sql", "").replace("```", "")
RemoveFences(text) ==
    IF text = <<>> THEN <<>>
    ELSE IF text[1] = "[fence]"
    THEN IF Len(text) >= 2 /\ text[2] = "sql"
         THEN RemoveFences(SubSeq(text, 3, Len(text)))
         ELSE RemoveFences(Tail(text))
    ELSE <<text[1]>> \o RemoveFences(Tail(text))

\* the handler's frame before any request
NoQh == [attempted |-> FALSE, written |-> FALSE, query_text |-> NoText, result |-> <<>>]

Frame(route, user, db_id, pc, constructed) ==
    [route |-> route, user |-> user, db_id |-> db_id, pc |-> pc,
     constructed |-> constructed, ai_response |-> NoAnswer, sql_query |-> NoText,
     rows |-> <<>>, keys |-> <<>>, qh |-> NoQh, name |-> None, connect_ok |-> FALSE]

NoBody ==
    [success |-> FALSE, sql_query |-> NoText, data |-> <<>>, insight_text |-> None,
     chart_type |-> None, schema |-> <<>>, message |-> None, connections |-> {}]

Response(status, detail, body) == [status |-> status, detail |-> detail, body |-> body]

NoResponse == Response("none", None, NoBody)

\* raise HTTPException(status_code, detail)
HTTPException(status, detail) == Response(status, detail, NoBody)

\* an exception no handler catches: the framework answers, the handler does not
Fault(what) == Response("fault", what, NoBody)

IdleConnector == NewConnector(NoProfile)

\* User.reset_token is NULL
NoToken == 0

\* a users row: hashed_password and reset_token
UserRow(hashed, token) == [hashed_password |-> hashed, reset_token |-> token]

InitUsers ==
    [e \in {"ann@x.io", "bob@x.io"} |-> UserRow(<<"$", "o", "l", "d">>, NoToken)]

AuthRequest(route, email, token) == [route |-> route, email |-> email, token |-> token]

AuthIdle ==
    /\ users = InitUsers
    /\ outbox = <<>>
    /\ issued = 0
    /\ areq = AuthRequest("none", None, NoToken)

\* no request is in flight and the event loop is free
TaskIdle ==
    /\ task = <<>>
    /\ loop = 0

GatewayIdle ==
    /\ AuthIdle
    /\ TaskIdle
    /\ profiles = InitProfiles
    /\ history = <<>>
    /\ rq = Frame("none", 0, 0, "idle", FALSE)
    /\ trace = <<>>
    /\ response = NoResponse

(***************************************************************************)
(* SpecConn: one connector instance, built from any profile the routes can  *)
(* hand to DatabaseConnector, under any sequence of method calls            *)
(***************************************************************************)
ConnProfiles ==
    {Profile(1, 1, "mysql", h, pt, d, u, "pw", None) :
        h \in {None, "db"}, pt \in {None, "3306"}, d \in {None, "shop"}, u \in {None, "root"}}
    \cup {Profile(1, 1, "mongodb", h, "27017", d, u, u, None) :
        h \in {None, "db"}, d \in {None, "shop"}, u \in {None, "root"}}
    \cup {Profile(1, 1, "excel", None, None, None, None, None, f) :
        f \in {None} \cup Paths}
    \cup {Profile(1, 1, "postgres", "db", "5432", "shop", "root", "pw", None)}

QueryTexts ==
    { <<>>,
      <<"SELECT", " ", "*", " ", "FROM", " ", "users">>,
      <<"{", "collection", ":", "users", "}">>,
      <<"{", "filter", ":", "f", "}">>,
      <<"{", "collection", ":", "users", "filter", ":", "f", "limit", ":", "1", "}">>,
      <<"{", "collection", ":", "users", "limit", ":", "1", "}">> }

\* ok, msg: what the last method call returned; raised: whether the last
\* close() was left by an exception; drv: what the driver did on that close()
NewSession(b, last) ==
    [connects |-> 0, allok |-> TRUE, reads0 |-> b.reads, last |-> last,
     ok |-> TRUE, msg |-> None, raised |-> FALSE, drv |-> "none"]

ConnInit ==
    /\ connector \in {NewConnector(p) : p \in ConnProfiles}
    /\ backend = NewBackend
    /\ files \in [Paths -> FileStates]
    /\ calls = 0
    /\ sess = NewSession(NewBackend, "__init__")
    /\ lq = <<>> /\ ln = 0 /\ lout = NoLimitOut /\ lpc = "input"
    /\ GatewayIdle

\* bookkeeping of one method call with result r whose connect() reported
\* connected
Called(r, name, connected) ==
    /\ connector' = r.c
    /\ backend' = r.b
    /\ calls' = calls + 1
    /\ sess' = [sess EXCEPT !.connects = @ + 1, !.allok = @ /\ connected, !.last = name,
                            !.ok = r.ok, !.msg = r.msg]
    /\ UNCHANGED <<files, lvars, gvars, avars, kvars>>

ConnConnect ==
    /\ calls < MaxCalls
    /\ \E o \in ConnectOutcomes :
        LET r == connect(connector, backend, files, o) IN
        Called(r, "connect", r.ok)

ConnExecuteQuery ==
    /\ calls < MaxCalls
    /\ \E o \in ConnectOutcomes, x \in ExecOutcomes, q \in QueryTexts :
        LET r == execute_query(connector, backend, files, q, o, x) IN
        Called(r, "execute_query", connect(connector, backend, files, o).ok)

ConnGetSchema ==
    /\ calls < MaxCalls
    /\ \E o \in ConnectOutcomes, x \in ExecOutcomes :
        LET r == get_schema(connector, backend, files, o, x) IN
        Called(r, "get_schema", connect(connector, backend, files, o).ok)

ConnGetResourceData ==
    /\ calls < MaxCalls
    /\ \E o \in ConnectOutcomes, x \in ExecOutcomes, limit \in {0, 1, 100} :
        LET r == get_resource_data(connector, backend, files, limit, o, x) IN
        Called(r, "get_resource_data", connect(connector, backend, files, o).ok)

ConnClose ==
    /\ calls < MaxCalls
    /\ \E k \in CloseOutcomes :
        LET w == close(connector, backend, k) IN
        /\ connector' = w.c
        /\ backend' = w.b
        /\ sess' = [NewSession(w.b, "close") EXCEPT !.raised = w.raised, !.drv = k]
    /\ calls' = calls + 1
    /\ UNCHANGED <<files, lvars, gvars, avars, kvars>>

ConnNext ==
    \/ ConnConnect
    \/ ConnExecuteQuery
    \/ ConnGetSchema
    \/ ConnGetResourceData
    \/ ConnClose

SpecConn == ConnInit /\ [][ConnNext]_vars

(***************************************************************************)
(* SpecLimit: enforce_limit applied once and twice to bounded inputs       *)
(***************************************************************************)
LimitAtoms == {"limit", "LIMIT", "x", " ", "7", ";"}

LimitTexts == UNION {[1..k -> LimitAtoms] : k \in 0..MaxLen}

LimitValues == {-1, 0, 7, 100, 1000}

LimitInit ==
    /\ lq \in LimitTexts
    /\ ln \in LimitValues
    /\ lout = NoLimitOut
    /\ lpc = "input"
    /\ connector = NewConnector(Profile(1, 1, "excel", None, None, None, None, None, None))
    /\ backend = NewBackend
    /\ files = [f \in Paths |-> MissingFile]
    /\ calls = 0
    /\ sess = NewSession(NewBackend, "__init__")
    /\ GatewayIdle

\* sql_query = enforce_limit(sql_query, limit=n)
ApplyLimit ==
    /\ lpc = "input"
    /\ lout' = [lout EXCEPT !.q1 = enforce_limit(lq, ln),
                            !.s1 = sql_safety_enforce_limit(lq, ln)]
    /\ lpc' = "once"
    /\ UNCHANGED <<lq, ln, cvars, gvars, avars, kvars>>

\* the result is passed through enforce_limit again
ReapplyLimit ==
    /\ lpc = "once"
    /\ lout' = [lout EXCEPT !.q2 = enforce_limit(lout.q1, ln),
                            !.s2 = sql_safety_enforce_limit(lout.s1, ln)]
    /\ lpc' = "twice"
    /\ UNCHANGED <<lq, ln, cvars, gvars, avars, kvars>>

LimitNext == ApplyLimit \/ ReapplyLimit

SpecLimit == LimitInit /\ [][LimitNext]_vars

(***************************************************************************)
(* The pure helpers of the schema normaliser and the result sanitiser run  *)
(* on lq / lout / lpc like enforce_limit; the instance and the gateway     *)
(* stay idle                                                               *)
(***************************************************************************)
PureIdle ==
    /\ connector = NewConnector(Profile(1, 1, "excel", None, None, None, None, None, None))
    /\ backend = NewBackend
    /\ files = [f \in Paths |-> MissingFile]
    /\ calls = 0
    /\ sess = NewSession(NewBackend, "__init__")
    /\ GatewayIdle

(***************************************************************************)
(* SpecName: normalize_column_name on raw column names, one character per  *)
(* element, applied once and then to its own result                        *)
(***************************************************************************)
\* characters of [a-zA-Z0-9_] that the raw names are drawn from
NameWordChars == {"a", "Z", "7", "_"}

\* raw names also hold blanks and other characters outside [a-zA-Z0-9_]
NameChars == NameWordChars \cup {" ", "-"}

RawNames == UNION {[1..k -> NameChars] : k \in 0..MaxLen}

Digits == {DigitAtoms[i] : i \in 1..Len(DigitAtoms)}

\* str.lower() on one character
CharLower(ch) == IF ch = "Z" THEN "z" ELSE ch

\* the characters of [a-zA-Z0-9_] that occur in the model
WordChars == {"a", "z", "Z", "c", "o", "l", "_"} \cup Digits

\* re.sub(r"[^a-zA-Z0-9_]", "_", text)
SubNonWord(text) ==
    [i \in 1..Len(text) |-> IF text[i] \in WordChars THEN text[i] ELSE "_"]

\* what a call of normalize_column_name gives: a string, or IndexError
NameResult(raised, value) == [raised |-> raised, value |-> value]

\* DatabaseConnector.normalize_column_name; safe[0] of an empty string raises
normalize_column_name(name) ==
    LET safe == SubNonWord(strip(name)) IN
    IF safe = <<>> THEN NameResult(TRUE, <<>>)
    ELSE LET prefixed == IF safe[1] \in Digits THEN <<"c", "o", "l", "_">> \o safe ELSE safe IN
         NameResult(FALSE, [i \in 1..Len(prefixed) |-> CharLower(prefixed[i])])

NoNameOut == [once |-> NameResult(FALSE, <<>>), twice |-> NameResult(FALSE, <<>>)]

NameInit ==
    /\ lq \in RawNames
    /\ ln = 0
    /\ lout = NoNameOut
    /\ lpc = "input"
    /\ PureIdle

\* "column_name": self.normalize_column_name(col)
ApplyName ==
    /\ lpc = "input"
    /\ lout' = [lout EXCEPT !.once = normalize_column_name(lq)]
    /\ lpc' = "once"
    /\ UNCHANGED <<lq, ln, cvars, gvars, avars, kvars>>

\* the name it returned is normalised again
ReapplyName ==
    /\ lpc = "once"
    /\ ~lout.once.raised
    /\ lout' = [lout EXCEPT !.twice = normalize_column_name(lout.once.value)]
    /\ lpc' = "twice"
    /\ UNCHANGED <<lq, ln, cvars, gvars, avars, kvars>>

NameNext == ApplyName \/ ReapplyName

SpecName == NameInit /\ [][NameNext]_vars

(***************************************************************************)
(* SpecType: normalize_type on native type strings, one character per      *)
(* element                                                                 *)
(***************************************************************************)
MaxWords == 2

\* the substrings normalize_type looks for
KwInt == <<"i", "n", "t">>
KwFloat == <<"f", "l", "o", "a", "t">>
KwDouble == <<"d", "o", "u", "b", "l", "e">>
KwNumeric == <<"n", "u", "m", "e", "r", "i", "c">>
KwReal == <<"r", "e", "a", "l">>
KwDate == <<"d", "a", "t", "e">>
KwTime == <<"t", "i", "m", "e">>
KwBool == <<"b", "o", "o", "l">>

\* pieces the native type strings are built from: the substrings, upper-case
\* spellings, halves of "int", and pieces that match nothing
TypeWords ==
    {KwInt, KwFloat, KwDouble, KwNumeric, KwReal, KwDate, KwTime, KwBool,
     <<"I", "N", "T">>, <<"D", "a", "t", "e">>, <<"i", "n">>, <<"t">>,
     <<"v", "a", "r">>, <<"6", "4">>}

RECURSIVE WordConcats(_)
\* the strings made of at most k pieces
WordConcats(k) ==
    IF k = 0 THEN {<<>>}
    ELSE LET shorter == WordConcats(k - 1) IN
         shorter \cup {s \o w : s \in shorter, w \in TypeWords}

TypeStrings == WordConcats(MaxWords)

\* str.lower() on one character of a type string
TypeCharLower(ch) ==
    CASE ch = "I" -> "i"
      [] ch = "N" -> "n"
      [] ch = "T" -> "t"
      [] ch = "D" -> "d"
      [] OTHER    -> ch

\* str(dtype).lower()
TypeLower(text) == [i \in 1..Len(text) |-> TypeCharLower(text[i])]

\* kw in text
Contains(text, kw) ==
    \E i \in 1..(Len(text) - Len(kw) + 1) : SubSeq(text, i, i + Len(kw) - 1) = kw

\* Faulty variant: the date/time row is tried before the int row.
normalize_type_date_first(dtype) ==
    LET low == TypeLower(dtype) IN
    IF Contains(low, KwDate) \/ Contains(low, KwTime) THEN "DATE"
    ELSE IF Contains(low, KwInt) THEN "INTEGER"
    ELSE IF Contains(low, KwFloat) \/ Contains(low, KwDouble)
            \/ Contains(low, KwNumeric) \/ Contains(low, KwReal) THEN "FLOAT"
    ELSE IF Contains(low, KwBool) THEN "BOOLEAN"
    ELSE "TEXT"

\* DatabaseConnector.normalize_type
normalize_type(dtype) ==
    LET low == TypeLower(dtype) IN
    IF Contains(low, KwInt) THEN "INTEGER"
    ELSE IF Contains(low, KwFloat) \/ Contains(low, KwDouble)
            \/ Contains(low, KwNumeric) \/ Contains(low, KwReal) THEN "FLOAT"
    ELSE IF Contains(low, KwDate) \/ Contains(low, KwTime) THEN "DATE"
    ELSE IF Contains(low, KwBool) THEN "BOOLEAN"
    ELSE "TEXT"

TypeInit ==
    /\ lq \in TypeStrings
    /\ ln = 0
    /\ lout = "None"
    /\ lpc = "input"
    /\ PureIdle

\* "data_type": self.normalize_type(col[1])
ApplyType ==
    /\ lpc = "input"
    /\ lout' = normalize_type(lq)
    /\ lpc' = "once"
    /\ UNCHANGED <<lq, ln, cvars, gvars, avars, kvars>>

TypeNext == ApplyType

SpecType == TypeInit /\ [][TypeNext]_vars

(***************************************************************************)
(* SpecJson: clean_json on nested dicts and lists, applied once and then   *)
(* to its own result                                                       *)
(***************************************************************************)
MaxDepth == 2

\* scalars: the three non-finite floats, a finite float, a string that
\* spells NaN, and None
JsonLeaves(k) ==
    {Leaf(k, "float", v) : v \in NonFinite \cup {"1.5"}}
    \cup {Leaf(k, "str", "NaN"), Leaf(k, "None", None)}

RECURSIVE JsonValues(_, _)
\* the values of depth at most d that sit under key k: a scalar, or a dict
\* (keys "a", "b") or list of up to two values whose second one is a scalar
JsonValues(k, d) ==
    IF d = 0 THEN JsonLeaves(k)
    ELSE JsonLeaves(k)
         \cup {Node(k, "list", None, <<>>), Node(k, "dict", None, <<>>)}
         \cup {Node(k, "list", None, <<x>>) : x \in JsonValues("", d - 1)}
         \cup {Node(k, "dict", None, <<x>>) : x \in JsonValues("a", d - 1)}
         \cup {Node(k, "list", None, <<x, y>>) :
                    x \in JsonValues("", d - 1), y \in JsonLeaves("")}
         \cup {Node(k, "dict", None, <<x, y>>) :
                    x \in JsonValues("a", d - 1), y \in JsonLeaves("b")}

NoJsonOut == [once |-> Leaf("", "None", None), twice |-> Leaf("", "None", None)]

JsonInit ==
    /\ lq \in JsonValues("", MaxDepth)
    /\ ln = 0
    /\ lout = NoJsonOut
    /\ lpc = "input"
    /\ PureIdle

\* return clean_json(res_payload)
ApplyClean ==
    /\ lpc = "input"
    /\ lout' = [lout EXCEPT !.once = clean_json(lq)]
    /\ lpc' = "once"
    /\ UNCHANGED <<lq, ln, cvars, gvars, avars, kvars>>

\* the cleaned value is cleaned again
ReapplyClean ==
    /\ lpc = "once"
    /\ lout' = [lout EXCEPT !.twice = clean_json(lout.once)]
    /\ lpc' = "twice"
    /\ UNCHANGED <<lq, ln, cvars, gvars, avars, kvars>>

JsonNext == ApplyClean \/ ReapplyClean

SpecJson == JsonInit /\ [][JsonNext]_vars

(***************************************************************************)
(* SpecAuth: the password-reset routes of app/routes/auth.py on a users    *)
(* table, one request at a time; background tasks run after the response   *)
(***************************************************************************)
MaxTokens == 3

Emails == {"ann@x.io", "bob@x.io", "eve@x.io"}

\* secrets.token_urlsafe(32): every generated token is a new value
Tokens == 1..MaxTokens

UpperChars == {"A"}
LowerChars == {"b", "c"}
DigitChars == {"1"}
SpecialChars == {"!"}

Passwords ==
    { <<"A", "b", "c", "b", "c", "b", "1", "!">>,
      <<"A", "b", "1", "!">>,
      <<"b", "c", "b", "c", "b", "c", "1", "!">> }

HasChar(password, class) == \E i \in 1..Len(password) : password[i] \in class

\* validate_password_strength: the detail of the HTTPException it raises, or
\* None when it returns
validate_password_strength(password) ==
    IF Len(password) < 8 THEN "Password must be at least 8 characters long"
    ELSE IF ~HasChar(password, UpperChars)
    THEN "Password must contain at least one uppercase letter"
    ELSE IF ~HasChar(password, LowerChars)
    THEN "Password must contain at least one lowercase letter"
    ELSE IF ~HasChar(password, DigitChars)
    THEN "Password must contain at least one number"
    ELSE IF ~HasChar(password, SpecialChars)
    THEN "Password must contain at least one special character"
    ELSE None

get_password_hash(password) == <<"$">> \o password

Message(text) == Response("200", None, [NoBody EXCEPT !.message = text])

GenericResetMessage == "If the email exists, a password reset link has been sent"

AuthResult(db, tasks, resp) == [users |-> db, tasks |-> tasks, response |-> resp]

\* Faulty variant: an unknown email is answered with 404.
forgot_password_telling(db, email, reset_token) ==
    IF email \in DOMAIN db
    THEN AuthResult([db EXCEPT ![email].reset_token = reset_token],
                    << <<email, reset_token>> >>,
                    Message(GenericResetMessage))
    ELSE AuthResult(db, <<>>, HTTPException("404", "User not found"))

\* forgot_password on the users table db; reset_token is the token it would
\* generate
forgot_password(db, email, reset_token) ==
    IF email \in DOMAIN db
    THEN AuthResult([db EXCEPT ![email].reset_token = reset_token],
                    << <<email, reset_token>> >>,
                    Message(GenericResetMessage))
    ELSE AuthResult(db, <<>>, Message(GenericResetMessage))

\* Faulty variant: the token is not cleared after the password was changed.
reset_password_keeps_token(db, token, new_password) ==
    IF validate_password_strength(new_password) # None
    THEN AuthResult(db, <<>>, HTTPException("400", validate_password_strength(new_password)))
    ELSE IF ~\E e \in DOMAIN db : db[e].reset_token = token
    THEN AuthResult(db, <<>>, HTTPException("400", "Invalid or expired reset token"))
    ELSE LET user == CHOOSE e \in DOMAIN db : db[e].reset_token = token
         IN AuthResult([db EXCEPT ![user].hashed_password = get_password_hash(new_password)],
                       <<>>,
                       Message("Password reset successfully"))

\* reset_password on the users table db
reset_password(db, token, new_password) ==
    IF validate_password_strength(new_password) # None
    THEN AuthResult(db, <<>>, HTTPException("400", validate_password_strength(new_password)))
    ELSE IF ~\E e \in DOMAIN db : db[e].reset_token = token
    THEN AuthResult(db, <<>>, HTTPException("400", "Invalid or expired reset token"))
    ELSE LET user == CHOOSE e \in DOMAIN db : db[e].reset_token = token
         IN AuthResult([db EXCEPT ![user] = UserRow(get_password_hash(new_password), NoToken)],
                       <<>>,
                       Message("Password reset successfully"))

AuthInit ==
    /\ PureIdle
    /\ lq = <<>> /\ ln = 0 /\ lout = NoLimitOut /\ lpc = "input"

\* POST /auth/forgot-password
ForgotPassword ==
    /\ issued < MaxTokens
    /\ \E email \in Emails :
         LET r == forgot_password(users, email, issued + 1)
         IN /\ users' = r.users
            /\ outbox' = outbox \o r.tasks
            /\ issued' = IF email \in DOMAIN users THEN issued + 1 ELSE issued
            /\ response' = r.response
            /\ areq' = AuthRequest("forgot-password", email, NoToken)
    /\ UNCHANGED <<lvars, cvars, profiles, history, rq, trace, kvars>>

\* the background task send_password_reset_email(email, reset_token)
SendResetEmail ==
    /\ outbox # <<>>
    /\ outbox' = Tail(outbox)
    /\ UNCHANGED <<lvars, cvars, gvars, users, issued, areq, kvars>>

\* POST /auth/reset-password
ResetPassword ==
    /\ \E token \in Tokens, new_password \in Passwords :
         LET r == reset_password(users, token, new_password)
         IN /\ users' = r.users
            /\ response' = r.response
            /\ areq' = AuthRequest("reset-password", None, token)
    /\ UNCHANGED <<lvars, cvars, profiles, history, rq, trace, outbox, issued, kvars>>

AuthNext ==
    \/ ForgotPassword
    \/ SendResetEmail
    \/ ResetPassword

SpecAuth == AuthInit /\ [][AuthNext]_vars

(***************************************************************************)
(* SpecLoop: the bodies of the async handlers POST /queries/execute and     *)
(* POST /generate as coroutines of one event loop.  A coroutine keeps the   *)
(* loop from the moment it is resumed until it awaits or returns; a         *)
(* synchronous call that waits for I/O keeps the loop while it waits.       *)
(***************************************************************************)
MaxTasks == 2

\* the I/O calls of a handler body in program order
Stages(route) ==
    IF route = "execute"
    THEN <<"connect", "get_resource_data", "model", "execute_query", "persist">>
    ELSE <<"connect", "get_schema", "model", "execute_query", "persist">>

\* the calls a handler awaits: generate_insight awaits client.post(...); every
\* other call of the two bodies is a plain synchronous call
Awaited(route, stage) == route = "generate" /\ stage = "model"

\* state: "ready"     waiting for the loop to resume it
\*        "blocked"   on the loop, inside a synchronous call that waits for I/O
\*        "awaiting"  suspended at an await, its I/O in flight
\*        "done"      returned or raised
Coroutine(route, at, state) == [route |-> route, at |-> at, state |-> state]

StageOf(t) == Stages(t.route)[t.at]

\* the coroutine t enters its call number at: it suspends when the call is
\* awaited, and waits inside the call otherwise; past the last call it returns
Enter(t, at) ==
    IF at > Len(Stages(t.route)) THEN Coroutine(t.route, at, "done")
    ELSE IF Awaited(t.route, Stages(t.route)[at]) THEN Coroutine(t.route, at, "awaiting")
    ELSE Coroutine(t.route, at, "blocked")

LoopRest == UNCHANGED <<lvars, cvars, gvars, avars>>

LoopInit ==
    /\ PureIdle
    /\ lq = <<>> /\ ln = 0 /\ lout = NoLimitOut /\ lpc = "input"

\* a request arrives: its coroutine is created and waits for the loop
Arrive ==
    /\ Len(task) < MaxTasks
    /\ \E route \in {"execute", "generate"} :
         task' = Append(task, Coroutine(route, 1, "ready"))
    /\ UNCHANGED loop
    /\ LoopRest

\* the loop resumes coroutine r, which runs up to its next call
Resume(r) ==
    /\ r \in DOMAIN task
    /\ task[r].state = "ready"
    /\ loop = 0
    /\ LET t == Enter(task[r], task[r].at) IN
       /\ task' = [task EXCEPT ![r] = t]
       /\ loop' = IF t.state = "blocked" THEN r ELSE 0
    /\ LoopRest

\* the synchronous call coroutine r is in returns; r goes on to its next call
\* without leaving the loop, or returns from the handler when the call failed
IoDone(r) ==
    /\ r \in DOMAIN task
    /\ task[r].state = "blocked"
    /\ loop = r
    /\ \E ok \in BOOLEAN :
         LET t == IF ok THEN Enter(task[r], task[r].at + 1)
                  ELSE Coroutine(task[r].route, task[r].at, "done") IN
         /\ task' = [task EXCEPT ![r] = t]
         /\ loop' = IF t.state = "blocked" THEN r ELSE 0
    /\ LoopRest

\* the awaited call of coroutine r completes: r can be resumed
AwaitDone(r) ==
    /\ r \in DOMAIN task
    /\ task[r].state = "awaiting"
    /\ task' = [task EXCEPT ![r] = Coroutine(task[r].route, task[r].at + 1, "ready")]
    /\ UNCHANGED loop
    /\ LoopRest

\* a step of request r
Progress(r) == Resume(r) \/ IoDone(r) \/ AwaitDone(r)

Resumes == \E r \in 1..MaxTasks : Resume(r)
IoDones == \E r \in 1..MaxTasks : IoDone(r)
AwaitDones == \E r \in 1..MaxTasks : AwaitDone(r)

LoopNext ==
    \/ Arrive
    \/ Resumes
    \/ IoDones
    \/ AwaitDones

SpecLoop == LoopInit /\ [][LoopNext]_vars

(***************************************************************************)
(* Spec: the gateway's request handlers, one request at a time             *)
(***************************************************************************)
\* Faulty variant: the lookup forgets the is_active filter.
owned_active_or_not(id, user) ==
    /\ id \in DOMAIN profiles
    /\ profiles[id].user_id = user

\* Faulty variant: the lookup forgets the ownership filter.
owned_active_any_user(id, user) ==
    /\ id \in DOMAIN profiles
    /\ profiles[id].is_active

\* db.query(DatabaseConnection).filter(id == .., user_id == .., is_active == True).first()
owned_active(id, user) ==
    /\ id \in DOMAIN profiles
    /\ profiles[id].user_id = user
    /\ profiles[id].is_active

\* db.query(DatabaseConnection).filter(id == .., user_id == ..).first()
owned(id, user) ==
    /\ id \in DOMAIN profiles
    /\ profiles[id].user_id = user

Finish(resp) ==
    /\ rq' = [rq EXCEPT !.pc = "idle"]
    /\ response' = resp

\* The lookup that opens execute_query, generate_insight and get_database_schema,
\* and the construction of the connector when it finds the profile
Begin(route, user, id) ==
    /\ rq.pc = "idle"
    /\ trace' = <<>>
    /\ backend' = NewBackend
    /\ IF owned_active(id, user)
       THEN /\ connector' = NewConnector(profiles[id])
            /\ rq' = Frame(route, user, id, "connect", TRUE)
            /\ response' = NoResponse
       ELSE /\ connector' = IdleConnector
            /\ rq' = Frame(route, user, id, "idle", FALSE)
            /\ response' = HTTPException("404", "Database connection not found")
    /\ UNCHANGED <<profiles, history, files, calls, sess, lvars, avars, kvars>>

\* ok, msg = connector.connect(); if not ok: raise HTTPException(400)
HandlerConnect(route, detail) ==
    /\ rq.route = route
    /\ rq.pc = "connect"
    /\ \E o \in ConnectOutcomes :
        LET r == connect(connector, backend, files, o) IN
        /\ connector' = r.c
        /\ backend' = r.b
        /\ trace' = trace \o <<"connect">>
        /\ IF r.ok
           THEN rq' = [rq EXCEPT !.pc = "fetch"] /\ response' = response
           ELSE Finish(HTTPException("400", detail))
    /\ UNCHANGED <<profiles, history, files, calls, sess, lvars, avars, kvars>>

-----------------------------------------------------------------------------
\* POST /queries/execute (routes/queries.py execute_query)

ExecuteStart ==
    /\ Len(history) < MaxHistory
    /\ \E user \in Users, id \in DbIds : Begin("execute", user, id)

ExecuteConnect == HandlerConnect("execute", "Database connection failed")

\* data = connector.get_resource_data(limit=100); connector.close() on both paths
ExecuteFetch ==
    /\ rq.route = "execute"
    /\ rq.pc = "fetch"
    /\ \E o \in ConnectOutcomes, x \in ExecOutcomes, k \in CloseOutcomes :
        LET r == get_resource_data(connector, backend, files, 100, o, x)
            w == close(r.c, r.b, k) IN
        /\ connector' = w.c
        /\ backend' = w.b
        /\ trace' = trace \o <<"get_resource_data", "connect", "close">>
        /\ IF r.ok
           THEN rq' = [rq EXCEPT !.pc = "model", !.keys = r.keys] /\ response' = response
           ELSE Finish(HTTPException("400", r.msg))
    /\ UNCHANGED <<profiles, history, files, calls, sess, lvars, avars, kvars>>

\* ai_response = query_data_with_ai(..); json.loads; sql_query = ai_response.get("sql_query");
\* without a query text the handler goes on to connector.close()
ExecuteModel ==
    /\ rq.route = "execute"
    /\ rq.pc = "model"
    /\ \E a \in GroqAnswers, k \in CloseOutcomes :
        LET sql == IF a.has_sql THEN Some(a.sql) ELSE NoText
            w == close(connector, backend, k) IN
        IF a.kind = "raise"
        THEN /\ rq' = [rq EXCEPT !.pc = "idle", !.ai_response = a]
             /\ response' = Fault("query_data_with_ai raised")
             /\ trace' = trace \o <<"model">>
             /\ UNCHANGED <<connector, backend>>
        ELSE IF a.kind = "malformed"
        THEN /\ rq' = [rq EXCEPT !.pc = "idle", !.ai_response = a]
             /\ response' = Fault("json.loads raised")
             /\ trace' = trace \o <<"model">>
             /\ UNCHANGED <<connector, backend>>
        ELSE IF sql.some /\ sql.text # <<>>
        THEN /\ rq' = [rq EXCEPT !.pc = "exec", !.ai_response = a, !.sql_query = sql]
             /\ trace' = trace \o <<"model">>
             /\ UNCHANGED <<connector, backend, response>>
        ELSE /\ rq' = [rq EXCEPT !.pc = "persist", !.ai_response = a, !.sql_query = sql]
             /\ trace' = trace \o <<"model", "close">>
             /\ connector' = w.c
             /\ backend' = w.b
             /\ UNCHANGED response
    /\ UNCHANGED <<profiles, history, files, calls, sess, lvars, avars, kvars>>

\* result = connector.execute_query(sql_query); connector.close() on both paths
ExecuteExecute ==
    /\ rq.route = "execute"
    /\ rq.pc = "exec"
    /\ \E o \in ConnectOutcomes, x \in ExecOutcomes, k \in CloseOutcomes :
        LET r == execute_query(connector, backend, files, rq.sql_query.text, o, x)
            w == close(r.c, r.b, k) IN
        /\ connector' = w.c
        /\ backend' = w.b
        /\ trace' = trace \o <<"execute_query", "connect", "close">>
        /\ IF r.ok
           THEN rq' = [rq EXCEPT !.pc = "persist", !.rows = r.data] /\ response' = response
           ELSE Finish(HTTPException("400", r.msg))
    /\ UNCHANGED <<profiles, history, files, calls, sess, lvars, avars, kvars>>

\* Faulty variant: a failed history write is reported to the caller.
persist_failure_reported(saved, resp) ==
    IF saved THEN resp ELSE HTTPException("500", "Failed to save query history")

\* try: db.add(qh); db.commit(); db.refresh(qh)  except Exception: db.rollback()
\* -- the handler goes on to the response it would have built anyway
persist_swallowed(saved, resp) == resp

\* res_payload = {...}; return clean_json(res_payload)
ExecutePayload(a, rows) ==
    IF ~a.has_sql THEN Fault("KeyError: sql_query")
    ELSE IF ~a.has_answer THEN Fault("KeyError: answer")
    ELSE IF ~a.has_chart THEN Fault("KeyError: suggested_chart")
    ELSE Response("200", None,
            [NoBody EXCEPT !.success = TRUE, !.sql_query = Some(a.sql),
                           !.data = CleanData(rows), !.insight_text = "answer",
                           !.chart_type = a.chart,
                           !.message = "Query executed successfully using AI"])

\* The history write of a handler; query_text is NOT NULL, so a None text
\* makes the commit fail
Persist(committed, resp) ==
    LET saved == committed /\ rq.sql_query.some IN
    /\ history' = IF saved
                  THEN Append(history, [user_id |-> rq.user, database_id |-> rq.db_id])
                  ELSE history
    /\ rq' = [rq EXCEPT !.pc = "idle",
                        !.qh = IF saved
                               THEN [attempted |-> TRUE, written |-> TRUE,
                                     query_text |-> rq.sql_query, result |-> rq.rows]
                               ELSE [NoQh EXCEPT !.attempted = TRUE]]
    /\ response' = persist_swallowed(saved, resp)
    /\ UNCHANGED <<connector, backend, trace, profiles, files, calls, sess, lvars, avars, kvars>>

ExecutePersist ==
    /\ rq.route = "execute"
    /\ rq.pc = "persist"
    /\ \E committed \in BOOLEAN :
        Persist(committed, ExecutePayload(rq.ai_response, rq.rows))

-----------------------------------------------------------------------------
\* POST /generate (routes/insights.py generate_insight)

GenerateStart ==
    /\ Len(history) < MaxHistory
    /\ \E user \in Users, id \in DbIds : Begin("generate", user, id)

GenerateConnect == HandlerConnect("generate", "Connection failed")

\* schema_result = connector.get_schema(); on failure close() and 400
GenerateSchema ==
    /\ rq.route = "generate"
    /\ rq.pc = "fetch"
    /\ \E o \in ConnectOutcomes, x \in ExecOutcomes, k \in CloseOutcomes :
        LET r == get_schema(connector, backend, files, o, x)
            w == close(r.c, r.b, k) IN
        IF r.ok
        THEN /\ connector' = r.c
             /\ backend' = r.b
             /\ trace' = trace \o <<"get_schema", "connect">>
             /\ rq' = [rq EXCEPT !.pc = "model", !.keys = r.keys]
             /\ response' = response
        ELSE /\ connector' = w.c
             /\ backend' = w.b
             /\ trace' = trace \o <<"get_schema", "connect", "close">>
             /\ Finish(HTTPException("400", "Failed to fetch schema"))
    /\ UNCHANGED <<profiles, history, files, calls, sess, lvars, avars, kvars>>

\* the POST to the model and the parse of its body; every failure closes the
\* connector and is reported as a 500
GenerateModel ==
    /\ rq.route = "generate"
    /\ rq.pc = "model"
    /\ \E a \in HfAnswers, k \in CloseOutcomes :
        LET w == close(connector, backend, k)
            sql == strip(RemoveFences(strip(a.sql))) IN
        IF a.kind = "text" /\ a.sql # <<>>
        THEN /\ rq' = [rq EXCEPT !.pc = "exec", !.ai_response = a, !.sql_query = Some(sql)]
             /\ trace' = trace \o <<"model">>
             /\ UNCHANGED <<connector, backend, response>>
        ELSE /\ connector' = w.c
             /\ backend' = w.b
             /\ trace' = trace \o <<"model", "close">>
             /\ rq' = [rq EXCEPT !.pc = "idle", !.ai_response = a]
             /\ response' = HTTPException("500",
                    CASE a.kind = "raise" -> "HuggingFace API request failed"
                      [] a.kind = "http_error" -> "HuggingFace API error"
                      [] OTHER -> "Failed to parse HuggingFace response")
    /\ UNCHANGED <<profiles, history, files, calls, sess, lvars, avars, kvars>>

\* result = connector.execute_query(sql_query); connector.close(); 400 on failure
GenerateExecute ==
    /\ rq.route = "generate"
    /\ rq.pc = "exec"
    /\ \E o \in ConnectOutcomes, x \in ExecOutcomes, k \in CloseOutcomes :
        LET r == execute_query(connector, backend, files, rq.sql_query.text, o, x)
            w == close(r.c, r.b, k) IN
        /\ connector' = w.c
        /\ backend' = w.b
        /\ trace' = trace \o <<"execute_query", "connect", "close">>
        /\ IF r.ok
           THEN rq' = [rq EXCEPT !.pc = "persist", !.rows = r.data] /\ response' = response
           ELSE Finish(HTTPException("400", r.msg))
    /\ UNCHANGED <<profiles, history, files, calls, sess, lvars, avars, kvars>>

\* return {"success": True, "sql_query": .., "data": .., "message": ..}
GeneratePayload(sql_query, rows) ==
    Response("200", None,
        [NoBody EXCEPT !.success = TRUE, !.sql_query = sql_query, !.data = rows,
                       !.message = "Query executed successfully"])

GeneratePersist ==
    /\ rq.route = "generate"
    /\ rq.pc = "persist"
    /\ \E committed \in BOOLEAN :
        Persist(committed, GeneratePayload(rq.sql_query, rq.rows))

-----------------------------------------------------------------------------
\* GET /{db_id}/schema and DELETE /{db_id} (routes/databases.py)

SchemaStart == \E user \in Users, id \in DbIds : Begin("schema", user, id)

SchemaConnect == HandlerConnect("schema", "Database connection failed")

\* schema_result = connector.get_schema(); connector.close(); 400 or the schema
SchemaFetch ==
    /\ rq.route = "schema"
    /\ rq.pc = "fetch"
    /\ \E o \in ConnectOutcomes, x \in ExecOutcomes, k \in CloseOutcomes :
        LET r == get_schema(connector, backend, files, o, x)
            w == close(r.c, r.b, k) IN
        /\ connector' = w.c
        /\ backend' = w.b
        /\ trace' = trace \o <<"get_schema", "connect", "close">>
        /\ IF r.ok
           THEN Finish(Response("200", None,
                    [NoBody EXCEPT !.success = TRUE, !.schema = r.keys, !.message = r.msg]))
           ELSE Finish(HTTPException("400", r.msg))
    /\ UNCHANGED <<profiles, history, files, calls, sess, lvars, avars, kvars>>

\* delete_database_connection: the whole handler; committed is whether
\* db.commit() succeeds (on failure db.rollback() restores is_active)
DeleteConnection ==
    /\ rq.pc = "idle"
    /\ \E user \in Users, id \in DbIds, committed \in BOOLEAN :
        /\ rq' = Frame("delete", user, id, "idle", FALSE)
        /\ IF ~owned(id, user)
           THEN /\ response' = HTTPException("404", "Database connection not found")
                /\ UNCHANGED <<profiles, files>>
           ELSE LET p == profiles[id] IN
                /\ files' = IF p.db_type = "excel" /\ Truthy(p.file_path)
                               /\ PathExists(files, p.file_path)
                            THEN [files EXCEPT ![p.file_path] = MissingFile]
                            ELSE files
                /\ profiles' = IF committed
                               THEN [profiles EXCEPT ![id].is_active = FALSE]
                               ELSE profiles
                /\ response' =
                      IF committed
                      THEN Response("200", "Database connection deleted successfully", NoBody)
                      ELSE HTTPException("500", "Failed to delete database connection")
    /\ connector' = IdleConnector
    /\ backend' = NewBackend
    /\ trace' = <<>>
    /\ UNCHANGED <<history, calls, sess, lvars, avars, kvars>>

\* names a create request may give
Names == {"main", "sheet"}

MaxProfiles == 4

\* where an upload is stored: uploads/<uuid4><ext>
UploadPaths == {"uploads/b.xlsx"}

\* the port of a request body as a number
PortNumber(pt) ==
    CASE pt = "3306" -> 3306
      [] pt = "27017" -> 27017
      [] pt = "70000" -> 70000
      [] OTHER -> 0

\* bodies of POST /: DatabaseConnectionCreate
CreateBodies ==
    {[Profile(0, 0, "mysql", "db", pt, "shop", "root", "pw", None) EXCEPT !.name = n] :
        pt \in {None, "0", "70000", "3306"}, n \in Names}
    \cup {[Profile(0, 0, "excel", None, None, None, None, None, f) EXCEPT !.name = n] :
        f \in Paths, n \in Names}
    \cup {[Profile(0, 0, "postgres", "db", "5432", "shop", "root", "pw", None) EXCEPT !.name = n] :
        n \in Names}

\* Faulty variant: the duplicate check looks among the inactive records.
existing_connection_inactive(user, name) ==
    \E id \in DOMAIN profiles :
        /\ profiles[id].user_id = user
        /\ profiles[id].name = name
        /\ ~profiles[id].is_active

\* db.query(DatabaseConnection).filter(user_id == .., name == .., is_active == True).first()
existing_connection(user, name) ==
    \E id \in DOMAIN profiles :
        /\ profiles[id].user_id = user
        /\ profiles[id].name = name
        /\ profiles[id].is_active

\* the id the table gives the next row; rows are never removed
NextId == Cardinality(DOMAIN profiles) + 1

\* the frame of a create request that ended
CreateFrame(route, user, name, constructed, connect_ok) ==
    [Frame(route, user, NextId, "idle", constructed)
        EXCEPT !.name = name, !.connect_ok = connect_ok]

\* a create request that ended before a connector was built
RejectCreate(route, user, name, resp) ==
    /\ rq' = CreateFrame(route, user, name, FALSE, FALSE)
    /\ response' = resp
    /\ connector' = IdleConnector
    /\ backend' = NewBackend
    /\ trace' = <<>>
    /\ UNCHANGED profiles

\* Faulty variant: the record is saved without looking at the result of the
\* connection test.
TestedBeforeSave_skipped(ok) == TRUE

\* success, message = connector.connect(); if not success: raise
TestedBeforeSave(ok) == ok

\* create_database_connection: the whole handler; o, k: what the driver does
\* on connect and close; committed: whether db.commit() succeeds
CreateConnection ==
    /\ rq.pc = "idle"
    /\ Cardinality(DOMAIN profiles) < MaxProfiles
    /\ \E user \in Users, body \in CreateBodies, o \in ConnectOutcomes,
          k \in CloseOutcomes, committed \in BOOLEAN :
        LET connection_obj == [body EXCEPT !.id = NextId, !.user_id = user]
            r == connect(NewConnector(connection_obj), NewBackend, files, o)
            w == close(r.c, r.b, k) IN
        IF body.db_type = "excel" /\ Truthy(body.file_path)
           /\ ~PathExists(files, body.file_path)
        THEN RejectCreate("create", user, body.name,
                          HTTPException("400", "Excel file not found at path"))
        ELSE IF body.db_type \in {"mysql", "mongodb"}
                /\ (body.port = None \/ PortNumber(body.port) <= 0
                    \/ PortNumber(body.port) > 65535)
        THEN RejectCreate("create", user, body.name,
                          HTTPException("400", "Invalid port number"))
        ELSE IF existing_connection(user, body.name)
        THEN RejectCreate("create", user, body.name,
                          HTTPException("400", "A connection with this name already exists"))
        ELSE IF ~TestedBeforeSave(r.ok)
        THEN /\ rq' = CreateFrame("create", user, body.name, TRUE, r.ok)
             /\ response' = HTTPException("400", "Connection failed")
             /\ connector' = r.c
             /\ backend' = r.b
             /\ trace' = <<"connect">>
             /\ UNCHANGED profiles
        ELSE /\ rq' = CreateFrame("create", user, body.name, TRUE, r.ok)
             /\ connector' = w.c
             /\ backend' = w.b
             /\ trace' = <<"connect", "close">>
             /\ IF committed
                THEN /\ profiles' = profiles @@ (NextId :> connection_obj)
                     /\ response' = Response("200", None, [NoBody EXCEPT !.success = TRUE])
                ELSE /\ UNCHANGED profiles
                     /\ response' = HTTPException("500", "Failed to save connection")
    /\ UNCHANGED <<history, files, calls, sess, lvars, avars, kvars>>

\* what an uploaded file holds
Uploads == {GoodTable, EmptyTable, CorruptFile}

\* paths no stored file and no record uses
FreshPaths ==
    {f \in UploadPaths :
        /\ ~PathExists(files, f)
        /\ \A id \in DOMAIN profiles : profiles[id].file_path # f}

\* Faulty variant: the failure paths leave the upload where it was saved.
remove_upload_skipped(storage, file_path) == storage

\* if os.path.exists(file_path): os.remove(file_path)
remove_upload(storage, file_path) == [storage EXCEPT ![file_path] = MissingFile]

\* create_excel_connection: the whole handler.  Every HTTPException raised
\* inside its try block is caught by the outer except, which removes the file
\* and raises 500
CreateExcelConnection ==
    /\ rq.pc = "idle"
    /\ Cardinality(DOMAIN profiles) < MaxProfiles
    /\ \E user \in Users, name \in Names, file \in Uploads, file_path \in FreshPaths,
          committed \in BOOLEAN :
        LET saved == [files EXCEPT ![file_path] = file]
            connection_obj ==
                [Profile(NextId, user, "excel", None, None, None, None, None, file_path)
                    EXCEPT !.name = name]
            r == connect(NewConnector(connection_obj), NewBackend, saved, "ok")
            w == close(r.c, r.b, "closed") IN
        IF existing_connection(user, name)
        THEN /\ RejectCreate("create_excel", user, name,
                             HTTPException("500", "Unexpected error"))
             /\ files' = remove_upload(saved, file_path)
        ELSE IF ~r.ok
        THEN /\ rq' = CreateFrame("create_excel", user, name, TRUE, r.ok)
             /\ response' = HTTPException("500", "Unexpected error")
             /\ connector' = r.c
             /\ backend' = r.b
             /\ trace' = <<"connect">>
             /\ files' = remove_upload(saved, file_path)
             /\ UNCHANGED profiles
        ELSE /\ rq' = CreateFrame("create_excel", user, name, TRUE, r.ok)
             /\ connector' = w.c
             /\ backend' = w.b
             /\ trace' = <<"connect", "close">>
             /\ IF committed
                THEN /\ profiles' = profiles @@ (NextId :> connection_obj)
                     /\ files' = saved
                     /\ response' = Response("200", None, [NoBody EXCEPT !.success = TRUE])
                ELSE /\ files' = remove_upload(saved, file_path)
                     /\ UNCHANGED profiles
                     /\ response' = HTTPException("500", "Unexpected error")
    /\ UNCHANGED <<history, calls, sess, lvars, avars, kvars>>

\* get_database_connections; queried: whether the query succeeds
ListConnections ==
    /\ rq.pc = "idle"
    /\ \E user \in Users, queried \in BOOLEAN :
        /\ rq' = Frame("list", user, 0, "idle", FALSE)
        /\ response' =
              IF queried
              THEN Response("200", None,
                      [NoBody EXCEPT !.success = TRUE,
                                     !.connections = {id \in DOMAIN profiles : owned_active(id, user)}])
              ELSE HTTPException("500", "Failed to retrieve connections")
    /\ connector' = IdleConnector
    /\ backend' = NewBackend
    /\ trace' = <<>>
    /\ UNCHANGED <<profiles, history, files, calls, sess, lvars, avars, kvars>>

Init ==
    /\ GatewayIdle
    /\ connector = IdleConnector
    /\ backend = NewBackend
    /\ files = [f \in Paths \cup UploadPaths |-> IF f \in Paths THEN GoodTable ELSE MissingFile]
    /\ calls = 0
    /\ sess = NewSession(NewBackend, "__init__")
    /\ lq = <<>> /\ ln = 0 /\ lout = NoLimitOut /\ lpc = "input"

Next ==
    \/ ExecuteStart
    \/ ExecuteConnect
    \/ ExecuteFetch
    \/ ExecuteModel
    \/ ExecuteExecute
    \/ ExecutePersist
    \/ GenerateStart
    \/ GenerateConnect
    \/ GenerateSchema
    \/ GenerateModel
    \/ GenerateExecute
    \/ GeneratePersist
    \/ SchemaStart
    \/ SchemaConnect
    \/ SchemaFetch
    \/ DeleteConnection
    \/ CreateConnection
    \/ CreateExcelConnection
    \/ ListConnections

Spec == Init /\ [][Next]_vars

(***************************************************************************)
(* SpecTemp: test_excel_connection handled for several uploads at once.     *)
(* The handler is a coroutine: it opens temp_<filename> for writing, is     *)
(* suspended at  await file.read()  and runs from there to its return       *)
(* without another await.                                                   *)
(***************************************************************************)

\* file_path = f"temp_{file.filename}"
TempPath(filename) == IF filename = "a.xlsx" THEN "temp_a.xlsx" ELSE "temp_b.xlsx"

Filenames == {"a.xlsx", "b.xlsx"}

TempPaths == {TempPath(n) : n \in Filenames}

\* what open(file_path, "wb") leaves at the path until something is written:
\* a file of no bytes, which is not a workbook
Truncated == CorruptFile

\* what the handler answers: the status, and the body's success and schema
TestAnswer(status, success, schema) == [status |-> status, success |-> success, schema |-> schema]

NoTestAnswer == TestAnswer("none", FALSE, <<>>)

\* the frame of one request; unlinked: another request removed the file this
\* request holds open
UploadTest(file_path, content, pc, unlinked, answer) ==
    [file_path |-> file_path, content |-> content, pc |-> pc, unlinked |-> unlinked,
     answer |-> answer]

\* the handler from its try block to its return, on the storage fs
test_excel_connection(fs, file_path) ==
    LET c0 == NewConnector(Profile(0, 1, "excel", None, None, None, None, None, file_path))
        r == connect(c0, NewBackend, fs, "ok")
        schema_result == get_schema(r.c, r.b, fs, "ok", "rows") IN
    IF r.ok
    THEN [fs |-> [fs EXCEPT ![file_path] = MissingFile],
          answer |-> TestAnswer("200", TRUE, schema_result.keys)]
    ELSE IF PathExists(fs, file_path)
    THEN [fs |-> [fs EXCEPT ![file_path] = MissingFile],
          answer |-> TestAnswer("200", FALSE, <<>>)]
    ELSE \* os.remove raises; the except block finds no file and raises 500
         [fs |-> fs, answer |-> TestAnswer("500", FALSE, <<>>)]

\* the answer of a request that is handled with no other request in flight
AnswerAlone(file_path, content) ==
    test_excel_connection([f \in TempPaths |-> IF f = file_path THEN content ELSE MissingFile],
                          file_path).answer

TempRest == UNCHANGED <<lvars, connector, backend, calls, sess, gvars, avars, loop>>

TempInit ==
    /\ connector = NewConnector(Profile(1, 1, "excel", None, None, None, None, None, None))
    /\ backend = NewBackend
    /\ files = [f \in TempPaths |-> MissingFile]
    /\ calls = 0
    /\ sess = NewSession(NewBackend, "__init__")
    /\ GatewayIdle
    /\ lq = <<>> /\ ln = 0 /\ lout = NoLimitOut /\ lpc = "input"

\* a request arrives and runs up to  await file.read(): the file is opened
\* for writing, which creates or truncates it
TempOpen ==
    /\ Len(task) < MaxTasks
    /\ \E filename \in Filenames, content \in Uploads :
         /\ task' = Append(task, UploadTest(TempPath(filename), content, "reading", FALSE,
                                            NoTestAnswer))
         /\ files' = [files EXCEPT ![TempPath(filename)] = Truncated]
    /\ TempRest

\* request r is resumed: it writes its content through the handle it holds,
\* closes it and runs the test to the end
TempFinish(r) ==
    /\ r \in DOMAIN task
    /\ task[r].pc = "reading"
    /\ LET path == task[r].file_path
           written == IF task[r].unlinked THEN files
                      ELSE [files EXCEPT ![path] = task[r].content]
           t == test_excel_connection(written, path)
           removed == PathExists(written, path) /\ ~PathExists(t.fs, path) IN
       /\ files' = t.fs
       /\ task' = [q \in DOMAIN task |->
                     IF q = r
                     THEN [task[r] EXCEPT !.pc = "done", !.answer = t.answer]
                     ELSE IF removed /\ task[q].pc = "reading" /\ task[q].file_path = path
                     THEN [task[q] EXCEPT !.unlinked = TRUE]
                     ELSE task[q]]
    /\ TempRest

TempFinishes == \E r \in 1..MaxTasks : TempFinish(r)

TempNext ==
    \/ TempOpen
    \/ TempFinishes

SpecTemp == TempInit /\ [][TempNext]_vars

(***************************************************************************)
(* SpecRace: create_database_connection handled for several requests at     *)
(* once.  The handler is a plain def, so the requests run on threads of the *)
(* worker pool, each with its own session; the threads can be switched      *)
(* between the duplicate-name query, the connection test and the commit.    *)
(***************************************************************************)

\* the frame of one create request: pc is "check" | "connect" | "commit" |
\* "done", status the answer once it is done
Creation(user, name, pc, status) == [user |-> user, name |-> name, pc |-> pc, status |-> status]

\* the record a create request of user under name would add
RaceRecord(user, name) ==
    [Profile(NextId, user, "mysql", "db", "3306", "shop", "root", "pw", None)
        EXCEPT !.name = name]

RaceRest == UNCHANGED <<lvars, cvars, history, rq, trace, response, avars, loop>>

RaceInit ==
    /\ PureIdle
    /\ lq = <<>> /\ ln = 0 /\ lout = NoLimitOut /\ lpc = "input"

\* a create request arrives
RaceStart ==
    /\ Len(task) < MaxTasks
    /\ \E user \in Users, name \in Names :
         task' = Append(task, Creation(user, name, "check", "none"))
    /\ UNCHANGED profiles
    /\ RaceRest

\* the duplicate-name query of request r
RaceCheck(r) ==
    /\ r \in DOMAIN task
    /\ task[r].pc = "check"
    /\ task' = [task EXCEPT ![r] =
                   IF existing_connection(task[r].user, task[r].name)
                   THEN Creation(task[r].user, task[r].name, "done", "400")
                   ELSE Creation(task[r].user, task[r].name, "connect", "none")]
    /\ UNCHANGED profiles
    /\ RaceRest

\* the connection test of request r
RaceTest(r) ==
    /\ r \in DOMAIN task
    /\ task[r].pc = "connect"
    /\ \E o \in ConnectOutcomes :
         LET c == connect(NewConnector(RaceRecord(task[r].user, task[r].name)),
                          NewBackend, files, o) IN
         task' = [task EXCEPT ![r] =
                     IF ~TestedBeforeSave(c.ok)
                     THEN Creation(task[r].user, task[r].name, "done", "400")
                     ELSE Creation(task[r].user, task[r].name, "commit", "none")]
    /\ UNCHANGED profiles
    /\ RaceRest

\* db.add, db.commit of request r
RaceCommit(r) ==
    /\ r \in DOMAIN task
    /\ task[r].pc = "commit"
    /\ \E committed \in BOOLEAN :
         IF committed
         THEN /\ profiles' = profiles @@ (NextId :> RaceRecord(task[r].user, task[r].name))
              /\ task' = [task EXCEPT ![r].pc = "done", ![r].status = "200"]
         ELSE /\ UNCHANGED profiles
              /\ task' = [task EXCEPT ![r].pc = "done", ![r].status = "500"]
    /\ RaceRest

RaceChecks == \E r \in 1..MaxTasks : RaceCheck(r)
RaceTests == \E r \in 1..MaxTasks : RaceTest(r)
RaceCommits == \E r \in 1..MaxTasks : RaceCommit(r)

RaceNext ==
    \/ RaceStart
    \/ RaceChecks
    \/ RaceTests
    \/ RaceCommits

SpecRace == RaceInit /\ [][RaceNext]_vars

(***************************************************************************)
(* Claims                                                                  *)
(***************************************************************************)
InTrace(e) == \E i \in 1..Len(trace) : trace[i] = e

CountInTrace(e) == Cardinality({i \in 1..Len(trace) : trace[i] = e})

ConnectorCalls == {"connect", "get_schema", "get_resource_data", "execute_query"}

\* C1: for a mysql profile, whenever a request of POST /queries/execute or
\* POST /generate has called DatabaseConnector.execute_query, the text it
\* passed begins with "select" (trimmed, any case) and holds no forbidden
\* token, whatever the external model answered.
C1_OnlyReadOnlyTextExecuted ==
    (/\ rq.route \in {"execute", "generate"}
     /\ rq.constructed
     /\ connector.db_connection.db_type = "mysql"
     /\ InTrace("execute_query"))
    => (/\ is_select_only(rq.sql_query.text)
        /\ ~contains_forbidden(rq.sql_query.text))

\* C2: when the model's query names, after FROM or JOIN, a table that is no
\* key of the fetched schema, the text handed to execute_query is the
\* fallback SELECT * FROM <first known table> LIMIT 100.
C2_UnknownTableReplacedByFallback ==
    (/\ rq.constructed
     /\ InTrace("execute_query")
     /\ rq.keys # <<>>
     /\ ~allowed_tables_check(rq.ai_response.sql, rq.keys))
    => rq.sql_query.text = FallbackQuery(rq.keys[1])

\* C3: when a request of execute, generate or schema has returned, on any exit
\* path, no handle opened by its connector is still open (but for a handle
\* whose driver close() raised).
C3_NoHandleOpenAfterRequest ==
    (rq.pc = "idle" /\ rq.route \in {"execute", "generate", "schema"})
    => backend.open \ backend.failed = {}

\* C4: a mysql or mongodb connector never has more than one of its handles
\* open, whatever methods were called on it, and none after close() (not
\* counting a handle whose driver close() raised).
C4_AtMostOneHandleOpen ==
    connector.db_connection.db_type \in {"mysql", "mongodb"}
    => (/\ Cardinality(backend.open \ backend.failed) <= 1
        /\ (sess.last = "close" => backend.open \ backend.failed = {}))

\* C5: a request of execute, generate or schema that names a profile that does
\* not exist, belongs to another user or is inactive, and a delete request
\* that names one that does not exist or belongs to another user, ends with
\* 404 before a connector is constructed and with profiles, files and history
\* unchanged.
C5_NotFoundBeforeConnector ==
    [][ (/\ rq.pc = "idle"
         /\ \/ /\ rq'.route \in {"execute", "generate", "schema"}
               /\ \/ rq'.db_id \notin DOMAIN profiles
                  \/ profiles[rq'.db_id].user_id # rq'.user
                  \/ ~profiles[rq'.db_id].is_active
            \/ /\ rq'.route = "delete"
               /\ \/ rq'.db_id \notin DOMAIN profiles
                  \/ profiles[rq'.db_id].user_id # rq'.user)
        => (/\ response'.status = "404"
            /\ rq'.pc = "idle"
            /\ ~rq'.constructed
            /\ connector' = IdleConnector
            /\ backend'.opened = 0
            /\ UNCHANGED <<profiles, files, history>>) ]_vars

\* C5 witness: an execute request of the owner on a profile the owner deleted
\* was answered 404 with no connector constructed.
C5_Witness ==
    /\ rq.route = "execute"
    /\ rq.pc = "idle"
    /\ rq.db_id \in DOMAIN profiles
    /\ profiles[rq.db_id].user_id = rq.user
    /\ ~profiles[rq.db_id].is_active
    /\ response.status = "404"
    /\ ~rq.constructed

\* C6: within one request no close() comes before the external model has
\* answered, and no connector call (connect or a backend query) comes after a
\* close().
C6_FixedOrder ==
    \A i \in 1..Len(trace), j \in 1..Len(trace) :
        (i < j /\ trace[i] = "close")
        => (trace[j] # "model" /\ trace[j] \notin ConnectorCalls)

\* the answer of the model failed in transport, does not parse, or lacks one
\* of sql_query, answer, suggested_chart (for HuggingFace: the generated text)
BadAnswer(a) ==
    \/ a.kind \in {"raise", "http_error", "malformed"}
    \/ a.kind = "json" /\ ~(a.has_sql /\ a.has_answer /\ a.has_chart)
    \/ a.kind = "text" /\ a.sql = <<>>

\* C7: a request whose model call failed or answered without the expected
\* fields ends with a reported failure (not an uncaught fault), after one
\* model call, without calling execute_query and without a history record.
C7_ModelFailureReported ==
    (rq.pc = "idle" /\ rq.route \in {"execute", "generate"} /\ BadAnswer(rq.ai_response))
    => (/\ response.status \in {"400", "500"}
        /\ CountInTrace("model") = 1
        /\ ~InTrace("execute_query")
        /\ ~rq.qh.written)

\* C8: a request that reached the history write answers with the success
\* envelope computed from the model's answer and the rows alone (status 200,
\* success, query text, rows, chart and message), whether the write was
\* committed or raised: a failed write is never surfaced.
C8_PersistFailureNotSurfaced ==
    (/\ rq.pc = "idle"
     /\ rq.qh.attempted
     /\ ~BadAnswer(rq.ai_response))
    => (/\ response.status = "200"
        /\ response.body.success
        /\ response.body.data = (IF rq.route = "execute" THEN CleanData(rq.rows) ELSE rq.rows)
        /\ response.body.sql_query =
              (IF rq.route = "execute" THEN Some(rq.ai_response.sql) ELSE rq.sql_query)
        /\ response.body.chart_type =
              (IF rq.route = "execute" THEN rq.ai_response.chart ELSE None)
        /\ response.body.message =
              (IF rq.route = "execute" THEN "Query executed successfully using AI"
               ELSE "Query executed successfully"))

\* C8 witness: an execute request with rows whose history write failed was
\* answered 200.
C8_Witness ==
    /\ rq.route = "execute"
    /\ rq.pc = "idle"
    /\ rq.qh.attempted
    /\ ~rq.qh.written
    /\ rq.rows # <<>>
    /\ response.status = "200"

\* C9: for an excel connector whose path holds a readable, non-empty
\* spreadsheet, the connect() calls made since construction or the last
\* close() read the file exactly once and all report success.
C9_ExcelReadOnce ==
    (/\ connector.db_connection.db_type = "excel"
     /\ Truthy(connector.db_connection.file_path)
     /\ PathExists(files, connector.db_connection.file_path)
     /\ files[connector.db_connection.file_path].kind = "table"
     /\ ~DataFrameEmpty(files[connector.db_connection.file_path])
     /\ sess.connects >= 1)
    => (/\ backend.reads - sess.reads0 = 1
        /\ sess.allok)

\* C9 witness: three connect() calls in a row on such a connector, one read.
C9_Witness ==
    /\ connector.db_connection.db_type = "excel"
    /\ Truthy(connector.db_connection.file_path)
    /\ files[connector.db_connection.file_path] = GoodTable
    /\ sess.connects >= 3
    /\ sess.allok
    /\ backend.reads - sess.reads0 = 1

HasLimitClause(text) == WordSearch(text, "limit")

\* C10: enforce_limit(q, n) contains a LIMIT clause; it is q when q has one;
\* and applying it to its own result changes nothing (both enforce_limit
\* functions).
C10_EnforceLimit ==
    /\ lpc \in {"once", "twice"}
       => (/\ HasLimitClause(lout.q1)
           /\ HasLimitClause(lout.s1)
           /\ (HasLimitClause(lq) => (lout.q1 = lq /\ lout.s1 = lq)))
    /\ lpc = "twice" => (lout.q2 = lout.q1 /\ lout.s2 = lout.s1)

\* C10 witness: a text without LIMIT got the suffix, and the second
\* application left it alone.
C10_Witness ==
    /\ lpc = "twice"
    /\ ~HasLimitClause(lq)
    /\ Len(lq) > 0
    /\ lout.q1 = rstrip(lq) \o <<" ", "LIMIT", " ">> \o IntStr(ln)
    /\ lout.q2 = lout.q1

\* the characters of [a-z0-9_]
LowerWordChars == WordChars \ {"Z"}

\* C11: for every raw column name, the empty and the blank ones included,
\* normalize_column_name returns a non-empty string of characters of
\* [a-z0-9_], and applied to that string it returns it unchanged.
C11_NormalizedName ==
    /\ lpc \in {"once", "twice"}
       => (/\ ~lout.once.raised
           /\ lout.once.value # <<>>
           /\ \A i \in 1..Len(lout.once.value) : lout.once.value[i] \in LowerWordChars)
    /\ lpc = "twice" => (~lout.twice.raised /\ lout.twice.value = lout.once.value)

CanonicalTypes == {"INTEGER", "FLOAT", "DATE", "BOOLEAN", "TEXT"}

\* does the type string hold the substring, in any case
HasKw(kw) == Contains(TypeLower(lq), kw)

FloatLike == HasKw(KwFloat) \/ HasKw(KwDouble) \/ HasKw(KwNumeric) \/ HasKw(KwReal)

DateLike == HasKw(KwDate) \/ HasKw(KwTime)

\* C14: normalize_type(t) is the first match, in any case, of the table
\* int -> INTEGER; float, double, numeric, real -> FLOAT; date, time -> DATE;
\* bool -> BOOLEAN; otherwise TEXT; and always one of these five.
C14_NormalizeTypeTable ==
    lpc = "once"
    => (/\ lout \in CanonicalTypes
        /\ HasKw(KwInt) => lout = "INTEGER"
        /\ (~HasKw(KwInt) /\ FloatLike) => lout = "FLOAT"
        /\ (~HasKw(KwInt) /\ ~FloatLike /\ DateLike) => lout = "DATE"
        /\ (~HasKw(KwInt) /\ ~FloatLike /\ ~DateLike /\ HasKw(KwBool)) => lout = "BOOLEAN"
        /\ (~HasKw(KwInt) /\ ~FloatLike /\ ~DateLike /\ ~HasKw(KwBool)) => lout = "TEXT")

\* C14 witness: a type string in upper case that holds both int and date was
\* given INTEGER.
C14_Witness ==
    /\ lpc = "once"
    /\ lq = <<"I", "N", "T">> \o <<"D", "a", "t", "e">>
    /\ lout = "INTEGER"

RECURSIVE SanitizedCopy(_, _)
\* y is x with null at every non-finite float and nothing else changed
SanitizedCopy(x, y) ==
    /\ y.k = x.k
    /\ IF x.t = "float" /\ x.v \in NonFinite
       THEN y.t = "None" /\ y.v = None /\ y.items = <<>>
       ELSE /\ y.t = x.t
            /\ y.v = x.v
            /\ Len(y.items) = Len(x.items)
            /\ \A i \in 1..Len(x.items) : SanitizedCopy(x.items[i], y.items[i])

\* C12: clean_json(x) holds null wherever x holds NaN, +infinity or
\* -infinity and is x everywhere else, shape included; and
\* clean_json(clean_json(x)) = clean_json(x).
C12_CleanJson ==
    /\ lpc \in {"once", "twice"} => SanitizedCopy(lq, lout.once)
    /\ lpc = "twice" => lout.twice = lout.once

\* C12 witness: a list inside a dict held NaN and -infinity; both are null
\* after one pass and a second pass changed nothing.
C12_Witness ==
    /\ lpc = "twice"
    /\ lq = Node("", "dict", None,
                 <<Node("a", "list", None,
                        <<Leaf("", "float", "NaN"), Leaf("", "float", "-Infinity")>>),
                   Leaf("b", "float", "1.5")>>)
    /\ lout.once = Node("", "dict", None,
                        <<Node("a", "list", None,
                               <<Leaf("", "None", None), Leaf("", "None", None)>>),
                          Leaf("b", "float", "1.5")>>)
    /\ lout.twice = lout.once

RECURSIVE PlainValue(_)
\* null, a boolean, a finite number, a string, or a dict or list of those
PlainValue(x) ==
    IF x.t \in {"dict", "list"}
    THEN \A i \in 1..Len(x.items) : PlainValue(x.items[i])
    ELSE /\ x.t \in {"None", "bool", "int", "float", "str"}
         /\ ~(x.t = "float" /\ x.v \in NonFinite)

\* C13: every value in the data rows of a success envelope is null, a
\* boolean, a finite number, a string or a nesting of those: decimals,
\* date-times and other driver types have been converted.
C13_PlainData ==
    (response.status = "200" /\ response.body.success)
    => \A i \in 1..Len(response.body.data) : PlainValue(response.body.data[i])

\* a step that is one call of close() on the instance
CloseStep == calls' = calls + 1 /\ sess'.last = "close"

\* close() on an excel connector changes no field but current_file_path and
\* touches neither the backends nor the files
CloseFrame ==
    connector.db_connection.db_type = "excel"
    => (/\ connector' = [connector EXCEPT !.current_file_path = connector'.current_file_path]
        /\ backend' = backend
        /\ files' = files)

\* C15 as stated: close() returns normally in every state of the connector,
\* the driver's close raising included; the handle a mysql or mongodb
\* connector holds is closed afterwards; an excel connector changes only its
\* cached path.
C15_CloseReleasesHandle ==
    [][ CloseStep
        => (/\ ~sess'.raised
            /\ HoldsHandle(connector) => connector.connection \notin backend'.open
            /\ CloseFrame) ]_vars

\* C15 amended: as above, but the held handle is closed afterwards only when
\* the driver's close() did not raise; when it raised the error is swallowed
\* and the handle stays as the driver left it.
C15_CloseReleasesUnlessDriverFails ==
    [][ CloseStep
        => (/\ ~sess'.raised
            /\ (HoldsHandle(connector) /\ sess'.drv = "closed")
               => connector.connection \notin backend'.open
            /\ CloseFrame) ]_vars

\* C15 witness: close() on a mysql connector that holds a handle returned
\* normally although the driver's close raised.
C15_Witness ==
    /\ sess.last = "close"
    /\ connector.db_connection.db_type = "mysql"
    /\ connector.connection # NoHandle
    /\ sess.drv = "error"
    /\ ~sess.raised
    /\ connector.connection \in backend.failed

MethodNames == {"connect", "execute_query", "get_schema", "get_resource_data"}

\* C16: whatever the backend kind, the profile and the connector's state,
\* and whatever the driver or the file reader did, the last call of connect,
\* execute_query, get_schema or get_resource_data returned a success flag
\* and a message: never None, never an exception.
C16_TaggedOutcome ==
    sess.last \in MethodNames
    => (/\ sess.ok \in BOOLEAN
        /\ sess.msg \notin {None, Uncaught, ""})

\* C16 witness: the driver raised on the statement of execute_query on a
\* connected mysql connector, and the call returned a failure with a message.
C16_Witness ==
    /\ sess.last = "execute_query"
    /\ connector.db_connection.db_type = "mysql"
    /\ connector.connection \in backend.open
    /\ ~sess.ok
    /\ sess.msg = "Error executing query"

\* no two active records of one owner have the same name
UniqueActiveNames ==
    \A a \in DOMAIN profiles, b \in DOMAIN profiles :
        (/\ a # b
         /\ profiles[a].is_active /\ profiles[b].is_active
         /\ profiles[a].user_id = profiles[b].user_id)
        => profiles[a].name # profiles[b].name

CreateRoutes == {"create", "create_excel"}

\* C17: after any sequence of create and delete requests no two active
\* profiles of one owner have the same name, and a create request whose name
\* is that of an active profile of the caller is rejected and adds no record.
C17_UniqueNamePerOwner ==
    [][ /\ UniqueActiveNames
        /\ UniqueActiveNames'
        /\ (/\ rq'.route \in CreateRoutes
            /\ \E id \in DOMAIN profiles :
                  /\ profiles[id].is_active
                  /\ profiles[id].user_id = rq'.user
                  /\ profiles[id].name = rq'.name)
           => (/\ profiles' = profiles
               /\ response'.status \in {"400", "500"}) ]_vars

\* C17 witness: a create request was accepted under the name of a deleted
\* profile of the same owner.
C17_Witness ==
    /\ rq.route \in CreateRoutes
    /\ response.status = "200"
    /\ \E a \in DOMAIN profiles, b \in DOMAIN profiles :
          /\ ~profiles[a].is_active
          /\ profiles[b].is_active
          /\ b = Cardinality(DOMAIN profiles)
          /\ profiles[a].user_id = profiles[b].user_id
          /\ profiles[a].name = profiles[b].name

\* C18: a record is added only by a create request whose connect() on a
\* connector built from the request's details returned success; a create
\* request whose connect() failed is rejected and adds no record.
C18_SavedOnlyAfterConnect ==
    [][ /\ DOMAIN profiles' # DOMAIN profiles
           => (/\ rq'.route \in CreateRoutes
               /\ rq'.constructed
               /\ rq'.connect_ok
               /\ trace'[1] = "connect"
               /\ connector'.db_connection = profiles'[Cardinality(DOMAIN profiles')])
        /\ (rq'.route \in CreateRoutes /\ rq'.constructed /\ ~rq'.connect_ok)
           => (/\ profiles' = profiles
               /\ response'.status \in {"400", "500"}) ]_vars

\* C18 witness: a create request whose connection test succeeded added its
\* record.
C18_Witness ==
    /\ rq.route = "create"
    /\ rq.connect_ok
    /\ response.status = "200"
    /\ Cardinality(DOMAIN profiles) = MaxProfiles
    /\ profiles[MaxProfiles].db_type = "mysql"

\* C19: a delete by the owner leaves the record in the table with is_active
\* false; an inactive record stays inactive for ever; no listing holds it;
\* and every execute, generate or schema request that names it gets 404.
C19_SoftDeleteIsFinal ==
    [][ /\ (rq'.route = "delete" /\ response'.status = "200")
           => (/\ rq'.db_id \in DOMAIN profiles'
               /\ ~profiles'[rq'.db_id].is_active)
        /\ \A id \in DOMAIN profiles :
              ~profiles[id].is_active
              => (id \in DOMAIN profiles' /\ ~profiles'[id].is_active)
        /\ (rq'.route = "list" /\ response'.status = "200")
           => \A id \in response'.body.connections : profiles'[id].is_active
        /\ (/\ rq.pc = "idle"
            /\ rq'.route \in {"execute", "generate", "schema"}
            /\ rq'.db_id \in DOMAIN profiles
            /\ ~profiles[rq'.db_id].is_active)
           => response'.status = "404" ]_vars

\* C19 witness: the owner of a deleted profile listed their connections; the
\* listing holds another profile of theirs and not the deleted one.
C19_Witness ==
    /\ rq.route = "list"
    /\ response.status = "200"
    /\ response.body.connections # {}
    /\ \E id \in DOMAIN profiles :
          /\ profiles[id].user_id = rq.user
          /\ ~profiles[id].is_active
          /\ id \notin response.body.connections

StrongPassword == <<"A", "b", "c", "b", "c", "b", "1", "!">>

\* the tokens with which reset-password would change the row of email in db
AcceptedFor(db, email) ==
    {t \in Tokens : reset_password(db, t, StrongPassword).users[email] # db[email]}

AcceptedNowhere(db, t) == \A e \in DOMAIN db : t \notin AcceptedFor(db, e)

\* C30: reset-password accepts at most one token per user; a user without an
\* outstanding token is reset by no token; forgot-password for a user makes
\* the token it generated the only one accepted for that user; a token that
\* reset a password is accepted by no later request; and a token that was
\* issued and is no longer accepted is never accepted again.
C30_OneLiveTokenPerUser ==
    [][ /\ \A e \in DOMAIN users : Cardinality(AcceptedFor(users, e)) <= 1
        /\ \A e \in DOMAIN users' : Cardinality(AcceptedFor(users', e)) <= 1
        /\ \A e \in DOMAIN users' :
             users'[e].reset_token = NoToken => AcceptedFor(users', e) = {}
        /\ issued' # issued
           => (/\ issued' = issued + 1
               /\ areq'.route = "forgot-password"
               /\ areq'.email \in DOMAIN users
               /\ AcceptedFor(users', areq'.email) = {issued'})
        /\ (users' # users /\ issued' = issued)
           => (/\ areq'.route = "reset-password"
               /\ response'.status = "200"
               /\ ~AcceptedNowhere(users, areq'.token)
               /\ AcceptedNowhere(users', areq'.token))
        /\ \A t \in Tokens :
             (t <= issued /\ AcceptedNowhere(users, t)) => AcceptedNowhere(users', t) ]_vars

\* C30 witness: a password was reset with the second token issued for a user
\* whose first token had been replaced.
C30_Witness ==
    /\ areq.route = "reset-password"
    /\ response.status = "200"
    /\ areq.token = 2
    /\ issued = 2
    /\ users["bob@x.io"].reset_token = NoToken
    /\ users["bob@x.io"].hashed_password = get_password_hash(StrongPassword)
    /\ users["ann@x.io"] = InitUsers["ann@x.io"]

\* C28: a delete request answered with 500 leaves the stored state as it was:
\* the profiles table and the file storage are unchanged.
C28_FailedDeleteChangesNothing ==
    [][ (rq'.route = "delete" /\ response'.status = "500")
        => (profiles' = profiles /\ files' = files) ]_vars

\* an upload in storage
StoredUploads(storage) == {f \in UploadPaths : PathExists(storage, f)}

ChartTypes == {"line", "bar", "pie", "table", "none"}

\* C25: the chart_type of every success envelope of POST /queries/execute and
\* POST /generate is one of line, bar, pie, table, none.
C25_ChartTypeInEnum ==
    (/\ rq.pc = "idle"
     /\ rq.route \in {"execute", "generate"}
     /\ response.status = "200"
     /\ response.body.success)
    => response.body.chart_type \in ChartTypes

\* profile p lacks a field its kind requires (fs: the file storage)
LacksRequired(p, fs) ==
    \/ /\ p.db_type = "mysql"
       /\ \E v \in {p.host, p.port, p.database_name, p.username} : v = None
    \/ /\ p.db_type = "mongodb"
       /\ \E v \in {p.host, p.port, p.database_name} : v = None
    \/ /\ p.db_type = "excel"
       /\ (p.file_path = None \/ ~PathExists(fs, p.file_path))

\* C24: connect() on a profile that lacks a required field (or whose file
\* path does not exist) returns failure, opens no handle, reads no file and
\* leaves every field of the connector as it was.
C24_MissingFieldNoEffect ==
    [][ (/\ sess'.last = "connect"
         /\ calls' = calls + 1
         /\ LacksRequired(connector.db_connection, files))
        => (/\ ~sess'.ok
            /\ backend' = backend
            /\ connector' = connector) ]_vars

\* C24 witness: connect() was called twice on a document profile without a
\* database name and failed.
C24_Witness ==
    /\ sess.last = "connect"
    /\ calls = 2
    /\ sess.connects = 2
    /\ connector.db_connection.db_type = "mongodb"
    /\ connector.db_connection.host # None
    /\ connector.db_connection.database_name = None
    /\ ~sess.ok
    /\ backend = NewBackend

\* the object text has a member named key
HasKey(text, key) == \E i \in 2..(Len(text) - 1) : (i - 2) % 3 = 0 /\ text[i] = key

\* C23: on a document connector, in every state and for every query text and
\* driver behaviour, execute_query fails and runs no find when the text is not
\* an object or has no collection; a find it runs has the match-all filter
\* when the text has no filter and the limit 100 when the text has no limit;
\* and every '_id' of the rows it returns is a string.
C23_DocumentQuery ==
    connector.db_connection.db_type = "mongodb"
    => \A q \in QueryTexts, o \in ConnectOutcomes, x \in ExecOutcomes :
         LET r == execute_query(connector, backend, files, q, o, x) IN
         /\ (~IsJsonObject(q) \/ ~HasKey(q, "collection"))
            => (~r.ok /\ r.b.finds = backend.finds /\ r.b.last_find = backend.last_find)
         /\ r.b.finds # backend.finds
            => (/\ r.b.finds = backend.finds + 1
                /\ r.b.last_find.collection = "users"
                /\ ~HasKey(q, "filter") => r.b.last_find.filter = MatchAll
                /\ ~HasKey(q, "limit") => r.b.last_find.limit = 100)
         /\ r.ok
            => \A i \in 1..Len(r.data) :
                 \A j \in 1..Len(r.data[i].items) :
                    r.data[i].items[j].k = "_id" => r.data[i].items[j].t = "str"

\* C23 witness: execute_query on a connected document connector ran a find
\* with the default filter and limit and returned.
C23_Witness ==
    /\ connector.db_connection.db_type = "mongodb"
    /\ sess.last = "execute_query"
    /\ sess.ok
    /\ backend.finds = 1
    /\ backend.last_find = [collection |-> "users", filter |-> MatchAll, limit |-> 100]

\* the value of the cell named key in a row
Cell(row, key) == row.items[CHOOSE j \in 1..Len(row.items) : row.items[j].k = key].v

HasCell(row, key) == \E j \in 1..Len(row.items) : row.items[j].k = key

\* an amount in tenths; an empty cell adds nothing to a sum
Tenths(v) ==
    CASE v = "1.5" -> 15
      [] v = "3.0" -> 30
      [] OTHER -> 0

RECURSIVE RegionSum(_, _)
\* the sum of the amounts of the rows of one region, in tenths
RegionSum(rows, region) ==
    IF rows = <<>> THEN 0
    ELSE (IF Cell(rows[1], "region") = region THEN Tenths(Cell(rows[1], "amount")) ELSE 0)
         + RegionSum(Tail(rows), region)

\* C22: when POST /queries/execute on a file-backed profile runs the query
\* generated for "total amount by region", the data of the success envelope
\* has exactly one row per distinct region of the loaded table, and that row
\* carries the sum of the region's amounts.
C22_DataIsQueryResult ==
    (/\ rq.pc = "idle"
     /\ rq.route = "execute"
     /\ response.status = "200"
     /\ rq.db_id = 2
     /\ rq.sql_query.text = GroupByText)
    => LET table == TableRows(connector.dataframe)
           data == response.body.data
           regions == {Cell(table[i], "region") : i \in 1..Len(table)} IN
       /\ response.body.success
       /\ Len(data) = Cardinality(regions)
       /\ \A i \in 1..Len(data) :
            /\ HasCell(data[i], "region")
            /\ Cell(data[i], "region") \in regions
            /\ \A j \in 1..Len(data) : j # i => Cell(data[j], "region") # Cell(data[i], "region")
            /\ \E j \in 1..Len(data[i].items) :
                 /\ data[i].items[j].k # "region"
                 /\ Tenths(data[i].items[j].v) = RegionSum(table, Cell(data[i], "region"))

\* request r is waiting on backend connect, query execution or the model call
WaitingOnIo(r) ==
    /\ task[r].state \in {"blocked", "awaiting"}
    /\ StageOf(task[r]) \in {"connect", "execute_query", "model"}

\* C21: while a request is waiting on backend connect, query execution or the
\* external-model call, every other request that has not finished can take
\* its next step.
C21_NoHeadOfLineBlocking ==
    \A r \in DOMAIN task, q \in DOMAIN task :
       (r # q /\ WaitingOnIo(r) /\ task[q].state # "done") => ENABLED Progress(q)

\* C26: however the steps of concurrent create requests are interleaved, no
\* two active profiles of one owner have the same name, and two requests of
\* one owner with one name are not both answered with success.
C26_NoDuplicateUnderRace ==
    /\ UniqueActiveNames
    /\ \A r \in DOMAIN task, q \in DOMAIN task :
         (r # q /\ task[r].user = task[q].user /\ task[r].name = task[q].name)
         => ~(task[r].status = "200" /\ task[q].status = "200")

\* C27: every finished POST /test-excel request got the answer it gets when
\* it is handled alone with the same upload, and no request in flight has had
\* the file it holds open removed by another request.
C27_TestUploadsIndependent ==
    \A r \in DOMAIN task :
       /\ task[r].pc = "done"
          => task[r].answer = AnswerAlone(task[r].file_path, task[r].content)
       /\ ~task[r].unlinked

=============================================================================
